---- MODULE Spec2Model ----
(***************************************************************************)
(* Model of the n-ary coincidence counters (ECS_MeDiv.calculate_counters   *)
(* and indices.base.BaseComparisons), of gen_sim_dict and the index        *)
(* classes of src/indices, of the ECS_MeDiv greedy diversity selection     *)
(* script, and of post_processing.srd._rank_array.                         *)
(*                                                                         *)
(* Conventions                                                             *)
(*  - Python indices are kept: total_data is a function over 0..P-1,       *)
(*    selected_n is a list of such indices.  A fingerprint (a row) is a    *)
(*    TLA+ sequence over 1..m.                                             *)
(*  - Real numbers are exact rationals.  A threshold is num/den, a         *)
(*    weighted counter is an integer numerator over the common             *)
(*    denominator "wscale" of its weight scheme, an index value is a       *)
(*    record [num, den] with den > 0, and numpy's nan is the record with   *)
(*    den = 0.  Floating-point rounding is not modelled.                   *)
(*  - A raised Python exception is a result with status "raised" and the   *)
(*    exception's type in exc.                                             *)
(***************************************************************************)
EXTENDS Integers, Sequences, FiniteSets, TLC

VARIABLES
    \* ---- one call of the counter engine ----
    call,                \* which function the call is made to
    data_sets,           \* argument of calculate_counters
    fingerprints,        \* argument of BaseComparisons: [mode, n, rows]
    c_threshold,         \* argument c_threshold of either function
    w_factor,            \* argument w_factor of either function (a string or None)
    counters,            \* what calculate_counters returned or raised
    bc,                  \* the BaseComparisons object, or what __init__ raised
    \* ---- one selection run of the ECS_MeDiv script ----
    total_data,          \* the numpy array the run works on (Python-indexed rows)
    loaded,              \* the array as np.load returned it (never assigned again)
    n_ary,               \* index name of the outer loop
    pc,                  \* position of the script
    seed,                \* result of calculate_medoid
    selected_n,          \* list of selected indices
    sc_row,              \* row of total_data that selected_condensed is a view of
    n,                   \* number of fingerprints selected
    exc,                 \* the exception that ended the run: [type, at]
    iters,               \* completed iterations of the while loop
    new_index_n,         \* the index the last iteration selected (line 366)
    indices,             \* the tie list of that get_new_index_n call (line 311)
    DiversityDict,       \* the dictionary of line 323
    \* ---- one call of gen_sim_dict or of an index class ----
    sim_dict,            \* what gen_sim_dict returned or raised
    index_obj,           \* the index object, or what its __init__ raised
    \* ---- a second call of the seed function ----
    seed_again,          \* result of calling calculate_medoid once more
    \* ---- one call of srd._rank_array ----
    rank_arg,            \* the array handed to _rank_array
    ranks                \* what _rank_array returned

vars == <<call, data_sets, fingerprints, c_threshold, w_factor, counters, bc,
          total_data, loaded, n_ary, pc, seed, selected_n, sc_row, n, exc, iters,
          new_index_n, indices, DiversityDict, sim_dict, index_obj,
          seed_again, rank_arg, ranks>>

countVars == <<call, data_sets, fingerprints, c_threshold, w_factor, counters, bc>>
selVars == <<total_data, loaded, n_ary, pc, seed, selected_n, sc_row, n, exc, iters,
            new_index_n, indices, DiversityDict>>
rankVars == <<rank_arg, ranks>>
restVars == <<sim_dict, index_obj, seed_again, rank_arg, ranks>>

-----------------------------------------------------------------------------
(* Bounds of the model *)

\* largest number of fingerprints handed to the counter engine
MaxN == 3
\* largest fingerprint length
MaxLen == 2
\* largest pool of a selection run
MaxPool == 6
\* target size of the selection; the script fixes it at 10 (ECS_MeDiv.py:361)
TargetK == 6
\* largest collection handed to calculate_medoid / calculate_outlier on their own
MaxRows == 4
\* longest array handed to _rank_array, and its largest element
MaxArr == 4
MaxVal == 2

-----------------------------------------------------------------------------
(* Python / numpy helpers *)

Abs(x) == IF x < 0 THEN -x ELSE x

RECURSIVE Pow(_, _)
Pow(b, e) == IF e <= 0 THEN 1 ELSE b * Pow(b, e - 1)

\* math.ceil(n / 2) for n >= 0
CeilHalf(x) == (x + 1) \div 2

\* scipy.special.binom(n, k) for integers 0 <= k <= n
RECURSIVE binom(_, _)
binom(nn, k) == IF k = 0 \/ k = nn THEN 1 ELSE binom(nn - 1, k - 1) + binom(nn - 1, k)

RECURSIVE SeqSum(_)
SeqSum(s) == IF s = <<>> THEN 0 ELSE Head(s) + SeqSum(Tail(s))

\* all binary vectors of length m
BinVec(m) == [1..m -> {0, 1}]

\* element-wise x + y and x - y of two numpy vectors of equal length
VecAdd(x, y) == [j \in 1..Len(x) |-> x[j] + y[j]]
VecSub(x, y) == [j \in 1..Len(x) |-> x[j] - y[j]]

\* the mutant of SumRows: the sum starts at row 1
RECURSIVE SumRows_from1(_, _)
SumRows_from1(rows, P) ==
    IF P = 1 THEN [j \in 1..Len(rows[0]) |-> 0]
    ELSE VecAdd(SumRows_from1(rows, P - 1), rows[P - 1])

\* np.sum(rows, axis=0) of a Python-indexed array with P >= 1 rows
RECURSIVE SumRows(_, _)
SumRows(rows, P) ==
    IF P = 1 THEN rows[0] ELSE VecAdd(SumRows(rows, P - 1), rows[P - 1])

\* np.sum(data_sets, axis=0) of a list (TLA+ sequence) of equal-length vectors
RECURSIVE np_sum_axis0(_)
np_sum_axis0(sets) ==
    IF Len(sets) = 1 THEN sets[1]
    ELSE VecAdd(sets[1], np_sum_axis0(Tail(sets)))

-----------------------------------------------------------------------------
(* Python values of the arguments *)

\* c_threshold values: None, a str, an int, or a float num/den
PyNone == [kind |-> "None", s |-> "", num |-> 0, den |-> 1]
PyStr(t) == [kind |-> "str", s |-> t, num |-> 0, den |-> 1]
PyInt(i) == [kind |-> "int", s |-> "", num |-> i, den |-> 1]
PyFloat(a, b) == [kind |-> "float", s |-> "", num |-> a, den |-> b]

\* Python truth value of such a value: "not x" is ~Truthy(x)
Truthy(x) ==
    CASE x.kind = "None" -> FALSE
      [] x.kind = "str" -> x.s # ""
      [] OTHER -> x.num # 0

\* w_factor strings are sequences of characters so that "in", split and int()
\* are computed; <<>> stands for None (both are falsy)
Str_fraction == <<"f", "r", "a", "c", "t", "i", "o", "n">>
Str_power == <<"p", "o", "w", "e", "r">>
Str_power_n == Str_power \o <<"_", "n">>
Str_power_2 == Str_power \o <<"_", "2">>
Str_power_0 == Str_power \o <<"_", "0">>
Str_power_neg2 == Str_power \o <<"_", "-", "2">>
Str_ones == <<"o", "n", "e", "s">>
WNone == <<>>

\* needle in hay (Python's substring test)
Contains(hay, needle) ==
    \E i \in 0..(Len(hay) - Len(needle)) :
        \A j \in 1..Len(needle) : hay[i + j] = needle[j]

\* hay.split("_")[-1]: what follows the last underscore (all of it if none)
SplitLast(hay) ==
    LET us == {i \in 1..Len(hay) : hay[i] = "_"}
        last == IF us = {} THEN 0 ELSE CHOOSE i \in us : \A j \in us : j <= i
    IN  SubSeq(hay, last + 1, Len(hay))

DigitVal(ch) ==
    CASE ch = "0" -> 0 [] ch = "1" -> 1 [] ch = "2" -> 2 [] ch = "3" -> 3
      [] ch = "4" -> 4 [] ch = "5" -> 5 [] ch = "6" -> 6 [] ch = "7" -> 7
      [] ch = "8" -> 8 [] ch = "9" -> 9 [] OTHER -> -1

RECURSIVE DigitsVal(_)
DigitsVal(ds) ==
    IF ds = <<>> THEN 0
    ELSE DigitsVal(SubSeq(ds, 1, Len(ds) - 1)) * 10 + DigitVal(ds[Len(ds)])

\* int(text): [ok, val]; ok = FALSE is Python's ValueError
ParseInt(text) ==
    LET signed == text # <<>> /\ text[1] \in {"-", "+"}
        ds == IF signed THEN Tail(text) ELSE text
        good == ds # <<>> /\ \A i \in 1..Len(ds) : DigitVal(ds[i]) >= 0
    IN  IF ~good THEN [ok |-> FALSE, val |-> 0]
        ELSE [ok |-> TRUE,
              val |-> IF signed /\ text[1] = "-" THEN -DigitsVal(ds) ELSE DigitsVal(ds)]

-----------------------------------------------------------------------------
(* ECS_MeDiv.calculate_counters *)

\* the mutant of calculate_counters_c_threshold: an unset threshold becomes
\* ceil(n / 2) instead of n % 2
calculate_counters_c_threshold_ceil(c, nf) ==
    LET c1 == IF ~Truthy(c) \/ (c.kind = "str" /\ c.s = "min")
              THEN PyInt(CeilHalf(nf)) ELSE c
        bad_str == c1.kind = "str" /\ c1.s # "dissimilar"
        c2 == IF c1.kind = "str" THEN PyInt(CeilHalf(nf)) ELSE c1
        too_big == c2.kind = "int" /\ c2.num >= nf
        frac == 0 < c2.num /\ c2.num < c2.den
        c3 == IF frac THEN PyFloat(c2.num * nf, c2.den) ELSE c2
    IN  IF bad_str THEN [ok |-> FALSE, exc |-> "TypeError", num |-> 0, den |-> 1]
        ELSE IF too_big THEN [ok |-> FALSE, exc |-> "ValueError", num |-> 0, den |-> 1]
        ELSE [ok |-> TRUE, exc |-> "", num |-> c3.num, den |-> c3.den]

\* lines 51-64: the effective coincidence threshold, or the exception raised
calculate_counters_c_threshold(c, nf) ==
    LET c1 == IF ~Truthy(c) \/ (c.kind = "str" /\ c.s = "min")
              THEN PyInt(nf % 2) ELSE c
        bad_str == c1.kind = "str" /\ c1.s # "dissimilar"
        c2 == IF c1.kind = "str" THEN PyInt(CeilHalf(nf)) ELSE c1
        too_big == c2.kind = "int" /\ c2.num >= nf
        frac == 0 < c2.num /\ c2.num < c2.den
        c3 == IF frac THEN PyFloat(c2.num * nf, c2.den) ELSE c2
    IN  IF bad_str THEN [ok |-> FALSE, exc |-> "TypeError", num |-> 0, den |-> 1]
        ELSE IF too_big THEN [ok |-> FALSE, exc |-> "ValueError", num |-> 0, den |-> 1]
        ELSE [ok |-> TRUE, exc |-> "", num |-> c3.num, den |-> c3.den]

\* lines 66-92: which pair of weight functions is defined; int() may raise
calculate_counters_w_factor(w) ==
    IF w # <<>>
    THEN IF Contains(w, Str_power)
         THEN LET pw == ParseInt(SplitLast(w))
              IN  IF pw.ok THEN [ok |-> TRUE, kind |-> "power", power |-> pw.val]
                  ELSE [ok |-> FALSE, kind |-> "power", power |-> 0]
         ELSE IF w = Str_fraction
              THEN [ok |-> TRUE, kind |-> "fraction", power |-> 0]
              ELSE [ok |-> TRUE, kind |-> "ones", power |-> 0]
    ELSE [ok |-> TRUE, kind |-> "ones", power |-> 0]

\* the common denominator of the weights of a scheme for nf fingerprints
WScale(scheme, nf) ==
    CASE scheme.kind = "fraction" -> nf
      [] scheme.kind = "power" -> IF scheme.power = 0 THEN 1 ELSE Pow(scheme.power, nf)
      [] OTHER -> 1

\* power ** -float(e) raises ZeroDivisionError for power = 0 and e > 0
PowRaises(scheme, e) == scheme.kind = "power" /\ scheme.power = 0 /\ e > 0

\* f_s(d), lines 70-71, 76-77, 82-83, 88-89, as a numerator over WScale
f_s(scheme, nf, d) ==
    CASE scheme.kind = "fraction" -> d
      [] scheme.kind = "power" ->
            IF scheme.power = 0 THEN (IF nf - d = 0 THEN 1 ELSE 0)
            ELSE Pow(scheme.power, d)
      [] OTHER -> 1

\* f_d(d), lines 73-74, 79-80, 85-86, 91-92, as a numerator over WScale
f_d(scheme, nf, d) ==
    CASE scheme.kind = "fraction" -> nf - (d - (nf % 2))
      [] scheme.kind = "power" ->
            IF scheme.power = 0 THEN (IF d - (nf % 2) = 0 THEN 1 ELSE 0)
            ELSE Pow(scheme.power, nf - (d - (nf % 2)))
      [] OTHER -> 1

\* x > c for the rational threshold c = num/den
GtThreshold(x, c) == x * c.den > c.num

\* the mutant of column_class: the 0-similar test is made with >= instead of >
column_class_ge(s, nf, c) ==
    IF GtThreshold(2 * s - nf, c) THEN "a"
    ELSE IF ~GtThreshold(2 * s - nf, [num |-> -c.num, den |-> c.den]) THEN "d"
    ELSE "dis"

\* the mutant of column_class: the 1-similar test looks at |2s - n|
column_class_abs(s, nf, c) ==
    IF GtThreshold(Abs(2 * s - nf), c) THEN "a"
    ELSE IF GtThreshold(nf - 2 * s, c) THEN "d"
    ELSE "dis"

\* lines 102, 105, 108: the branch of the loop body taken for column sum s
column_class(s, nf, c) ==
    IF GtThreshold(2 * s - nf, c) THEN "a"
    ELSE IF GtThreshold(nf - 2 * s, c) THEN "d"
    ELSE "dis"

\* lines 103-104, 106-107, 109-110: the counters after a column of class cls
\* and column sum s; raised stands for the ZeroDivisionError of 0 ** -e
column_step(acc, cls, s, nf, scheme) ==
    CASE cls = "a" ->
            IF PowRaises(scheme, nf - (2 * s - nf))
            THEN [acc EXCEPT !.a = @ + 1, !.raised = TRUE]
            ELSE [acc EXCEPT !.a = @ + 1, !.w_a = @ + f_s(scheme, nf, 2 * s - nf)]
      [] cls = "d" ->
            IF PowRaises(scheme, nf - Abs(2 * s - nf))
            THEN [acc EXCEPT !.d = @ + 1, !.raised = TRUE]
            ELSE [acc EXCEPT !.d = @ + 1, !.w_d = @ + f_s(scheme, nf, Abs(2 * s - nf))]
      [] OTHER ->
            IF PowRaises(scheme, Abs(2 * s - nf) - (nf % 2))
            THEN [acc EXCEPT !.total_dis = @ + 1, !.raised = TRUE]
            ELSE [acc EXCEPT !.total_dis = @ + 1,
                             !.total_w_dis = @ + f_d(scheme, nf, Abs(2 * s - nf))]

\* lines 94-110: the loop over the columns, from column j on
RECURSIVE calculate_counters_loop(_, _, _, _, _, _)
calculate_counters_loop(c_total, j, nf, c, scheme, acc) ==
    IF j > Len(c_total) \/ acc.raised THEN acc
    ELSE calculate_counters_loop(c_total, j + 1, nf, c, scheme,
            column_step(acc, column_class(c_total[j], nf, c), c_total[j], nf, scheme))

NoCounters ==
    [c_num |-> 0, c_den |-> 1, wscale |-> 1, n_fingerprints |-> 0,
     a |-> 0, w_a |-> 0, d |-> 0, w_d |-> 0,
     total_sim |-> 0, total_w_sim |-> 0, total_dis |-> 0, total_w_dis |-> 0,
     p |-> 0, w_p |-> 0]

Raised(e) == [status |-> "raised", exc |-> e] @@ NoCounters

Pending == [status |-> "pending", exc |-> ""] @@ NoCounters

\* lines 94-100: the counters before the loop
ZeroCounters ==
    [a |-> 0, w_a |-> 0, d |-> 0, w_d |-> 0,
     total_dis |-> 0, total_w_dis |-> 0, raised |-> FALSE]

\* lines 111-121: the dictionary returned, or the exception that ended the call
counters_dict(thr, scheme, nf, r) ==
    IF ~thr.ok THEN Raised(thr.exc)
    ELSE IF ~scheme.ok THEN Raised("ValueError")
    ELSE IF r.raised THEN Raised("ZeroDivisionError")
    ELSE [status |-> "ok", exc |-> "",
          c_num |-> thr.num, c_den |-> thr.den,
          wscale |-> WScale(scheme, nf), n_fingerprints |-> nf,
          a |-> r.a, w_a |-> r.w_a, d |-> r.d, w_d |-> r.w_d,
          total_sim |-> r.a + r.d, total_w_sim |-> r.w_a + r.w_d,
          total_dis |-> r.total_dis, total_w_dis |-> r.total_w_dis,
          p |-> (r.a + r.d) + r.total_dis,
          w_p |-> (r.w_a + r.w_d) + r.total_w_dis]

\* lines 51-121 for column sums c_total, nf fingerprints, and the threshold
\* and the weights already assigned
count_columns(c_total, nf, thr, scheme) ==
    counters_dict(thr, scheme, nf,
                  calculate_counters_loop(c_total, 1, nf, thr, scheme, ZeroCounters))

\* lines 47-49: total_data = np.sum(data_sets, axis=0) split into the column
\* sums and the number of fingerprints
split_total(total, c, w) ==
    count_columns(SubSeq(total, 1, Len(total) - 1), total[Len(total)],
                  calculate_counters_c_threshold(c, total[Len(total)]),
                  calculate_counters_w_factor(w))

\* lines 9-121: data_sets is a list of arrays, each the column sums followed by
\* the number of fingerprints
calculate_counters(sets, c, w) == split_total(np_sum_axis0(sets), c, w)

-----------------------------------------------------------------------------
(* indices.base.BaseComparisons *)

\* the fingerprints argument: an int, or an array of rows (Python-indexed)
FpInt(i) == [mode |-> "int", n |-> i, rows |-> <<>>]
FpArray(P, rows) == [mode |-> "array", n |-> P, rows |-> rows]

\* lines 100-115
n_fingerprints(fp) == fp.n

\* lines 117-152: "" when the fingerprints are accepted, else the exception
assign_fingerprints(fp) ==
    IF fp.mode = "int"
    THEN IF fp.n <= 0 THEN "ValueError" ELSE ""
    ELSE IF fp.n < 2 THEN "ValueError"
         ELSE IF ~(\A i \in 0..(fp.n - 1) : Len(fp.rows[i]) = Len(fp.rows[0]))
              THEN "ValueError"
              ELSE ""

\* lines 154-182: set is FALSE when no branch assigns self.c_threshold
assign_c_threshold(c, nf) ==
    LET set1 == ~Truthy(c)
        bad_str == c.kind = "str" /\ c.s # "dissimilar"
        too_big == c.kind = "int" /\ c.num >= nf
    IN  IF bad_str THEN [exc |-> "TypeError", set |-> FALSE, num |-> 0]
        ELSE IF too_big THEN [exc |-> "ValueError", set |-> FALSE, num |-> 0]
        ELSE IF c.kind = "int" THEN [exc |-> "", set |-> TRUE, num |-> c.num]
        ELSE IF c.kind = "str" THEN [exc |-> "", set |-> TRUE, num |-> CeilHalf(nf)]
        ELSE IF set1 THEN [exc |-> "", set |-> TRUE, num |-> nf % 2]
        ELSE [exc |-> "", set |-> FALSE, num |-> 0]

\* lines 184-193: matches[k + 1] is Python's matches[k]
set_matches(fp) ==
    IF fp.mode = "int"
    THEN [k1 \in 1..(fp.n + 1) |-> binom(fp.n, k1 - 1)]
    ELSE LET c_total == SumRows(fp.rows, fp.n)
         IN  [k1 \in 1..(fp.n + 1) |->
                 Cardinality({j \in 1..Len(c_total) : c_total[j] = k1 - 1})]

\* lines 195-204
set_d_vector(nf) == [k1 \in 1..(nf + 1) |-> Abs(2 * (k1 - 1) - nf)]

\* lines 219-238: only the literal "power_n" selects the power weights, and
\* int("n") then raises ValueError
set_w_factor_scheme(w) ==
    IF w = Str_power_n
    THEN LET pw == ParseInt(SplitLast(w))
         IN  IF pw.ok THEN [ok |-> TRUE, kind |-> "power", power |-> pw.val]
             ELSE [ok |-> FALSE, kind |-> "power", power |-> 0]
    ELSE IF w = Str_fraction
         THEN [ok |-> TRUE, kind |-> "fraction", power |-> 0]
         ELSE [ok |-> TRUE, kind |-> "ones", power |-> 0]

\* lines 239-245: the weights as numerators over WScale
set_w_factor_weights(scheme, nf, d_vector, c) ==
    [k1 \in 1..(nf + 1) |->
        IF d_vector[k1] > c THEN f_s(scheme, nf, d_vector[k1])
        ELSE f_d(scheme, nf, d_vector[k1])]

\* lines 247-249
set_weighted_matches(matches, weights) ==
    [k1 \in 1..Len(matches) |-> matches[k1] * weights[k1]]

\* sum of v[k + 1] over the k of 0..nf, from k on, that are in keep
RECURSIVE SumWhere(_, _, _, _)
SumWhere(v, nf, k, keep) ==
    IF k > nf THEN 0
    ELSE (IF k \in keep THEN v[k + 1] ELSE 0) + SumWhere(v, nf, k + 1, keep)

\* the mutant of set_dis_counters: < instead of <=
set_dis_counters_lt(v, nf, d_vector, c) ==
    SumWhere(v, nf, 0, {k \in 0..nf : d_vector[k + 1] < c})

\* lines 251-257 and 267-273
set_a(v, nf, c) ==
    SumWhere(v, nf, 0, {k \in 0..nf : 2 * k - nf > c})

\* lines 259-265 and 275-281
set_d(v, nf, c) ==
    SumWhere(v, nf, 0, {k \in 0..nf : nf - 2 * k > c})

\* lines 283-297 with 307-313: np.sum of the kept entries
set_dis_counters(v, nf, d_vector, c) ==
    SumWhere(v, nf, 0, {k \in 0..nf : d_vector[k + 1] <= c})

NoObject ==
    [c_set |-> FALSE, matches |-> <<>>, d_vector |-> <<>>, weights |-> <<>>,
     weighted_matches |-> <<>>] @@ NoCounters

ObjRaised(e) == [status |-> "raised", exc |-> e] @@ NoObject

ObjPending == [status |-> "pending", exc |-> ""] @@ NoObject

\* lines 66-98: __init__; the object, or the first exception raised
BaseComparisons(fp, c, w) ==
    LET e1 == assign_fingerprints(fp)
        nf == n_fingerprints(fp)
        thr == assign_c_threshold(c, nf)
        scheme == set_w_factor_scheme(w)
        matches == set_matches(fp)
        d_vector == set_d_vector(nf)
        weights == set_w_factor_weights(scheme, nf, d_vector, thr.num)
        wm == set_weighted_matches(matches, weights)
        a == set_a(matches, nf, thr.num)
        d == set_d(matches, nf, thr.num)
        w_a == set_a(wm, nf, thr.num)
        w_d == set_d(wm, nf, thr.num)
        total_dis == set_dis_counters(matches, nf, d_vector, thr.num)
        total_w_dis == set_dis_counters(wm, nf, d_vector, thr.num)
    IN  IF e1 # "" THEN ObjRaised(e1)
        ELSE IF thr.exc # "" THEN ObjRaised(thr.exc)
        ELSE IF ~scheme.ok THEN ObjRaised("ValueError")
        ELSE IF ~thr.set THEN ObjRaised("AttributeError")
        ELSE [status |-> "ok", exc |-> "", c_set |-> TRUE,
              c_num |-> thr.num, c_den |-> 1,
              wscale |-> WScale(scheme, nf), n_fingerprints |-> nf,
              matches |-> matches, d_vector |-> d_vector, weights |-> weights,
              weighted_matches |-> wm,
              a |-> a, w_a |-> w_a, d |-> d, w_d |-> w_d,
              total_sim |-> a + d, total_w_sim |-> w_a + w_d,
              total_dis |-> total_dis, total_w_dis |-> total_w_dis,
              p |-> (a + d) + total_dis, w_p |-> (w_a + w_d) + total_w_dis]

-----------------------------------------------------------------------------
(* ECS_MeDiv.gen_sim_dict *)

\* an index value num/den with den > 0; den = 0 stands for numpy's nan, which
\* compares False with everything and absorbs every sum
Rat(a, b) == [num |-> a, den |-> b]
NaN == Rat(0, 0)
RatLt(x, y) == x.num * y.den < y.num * x.den
RatEq(x, y) == x.den # 0 /\ y.den # 0 /\ x.num * y.den = y.num * x.den
RatAdd(x, y) ==
    IF x.den = y.den THEN Rat(x.num + y.num, x.den)
    ELSE Rat(x.num * y.den + y.num * x.den, x.den * y.den)

\* lines 131 and 167: (2/np.pi) * np.arcsin(np.sqrt(x)) at the points x = X/12
\* with values Y/300.  The values at 0, 1/4, 1/2, 3/4 and 1 are exact; the
\* irrational values at 1/3 and 2/3 (0.3918.. and 0.6081..) are given as 0.39
\* and 0.61, which order the sums of up to six pairwise values of
\* get_single_index as the true values do.
ArcsinNodes ==
    <<[X |-> 0, Y |-> 0], [X |-> 3, Y |-> 100], [X |-> 4, Y |-> 117],
      [X |-> 6, Y |-> 150], [X |-> 8, Y |-> 183], [X |-> 9, Y |-> 200],
      [X |-> 12, Y |-> 300]>>

\* the value between the nodes lo and hi: the function is increasing, and
\* between two nodes only the order of single values is used
ArcsinBetween(a, b, lo, hi) ==
    IF 12 * a = lo.X * b THEN Rat(lo.Y, 300)
    ELSE Rat(lo.Y * (hi.X - lo.X) * b + (hi.Y - lo.Y) * (12 * a - lo.X * b),
             300 * (hi.X - lo.X) * b)

\* np.arcsin(np.sqrt(a/b)) * 2/np.pi for a >= 0, b > 0: nan (with a
\* RuntimeWarning, no exception) when a/b > 1
ArcsinSqrt(a, b) ==
    IF a > b THEN NaN
    ELSE IF a = b THEN Rat(300, 300)
    ELSE LET k == CHOOSE j \in 1..(Len(ArcsinNodes) - 1) :
                      /\ ArcsinNodes[j].X * b <= 12 * a
                      /\ 12 * a < ArcsinNodes[j + 1].X * b
         IN ArcsinBetween(a, b, ArcsinNodes[k], ArcsinNodes[k + 1])

\* lines 132-198: the denominators whose vanishing raises ZeroDivisionError.
\* cs holds the weighted counters as numerators over cs.wscale > 0; a
\* logarithm log(1 + x) vanishes exactly when x does.  The two BUB quotients
\* are numpy divisions (nan, no exception) and are left out.
ZeroDivisors(cs) ==
    {cs.w_p,                              \* ac_w, fai_w, rr_w, sm_w, ct1_w .. ct3_w
     cs.w_a + cs.total_w_dis,             \* ct4_w, jt_w
     2 * cs.w_a + cs.total_w_dis,         \* gle_w
     3 * cs.w_a + cs.total_w_dis,         \* ja_w
     3 * cs.total_w_sim + cs.total_w_dis, \* ja0_w
     cs.w_p + cs.total_w_dis,             \* rt_w
     cs.w_a + 2 * cs.total_w_dis,         \* ss1_w
     cs.w_p + cs.total_w_sim,             \* ss2_w
     cs.p,                                \* ac_nw, fai_nw, rr_nw, sm_nw, ct1_nw .. ct3_nw
     cs.a + cs.total_dis,                 \* ct4_nw, jt_nw
     2 * cs.a + cs.total_dis,             \* gle_nw
     3 * cs.a + cs.total_dis,             \* ja_nw
     3 * cs.total_sim + cs.total_dis,     \* ja0_nw
     cs.p + cs.total_dis,                 \* rt_nw
     cs.a + 2 * cs.total_dis,             \* ss1_nw
     cs.p + cs.total_sim}                 \* ss2_nw

\* the names of the indices whose value is a rational function of the counters
RationalIndices == {"Fai", "Gle", "Ja", "Ja0", "JT", "RT", "RR", "SM", "SS1", "SS2"}

\* lines 131-163: Indices['w'][name]
WeightedIndex(cs, name) ==
    CASE name = "AC" -> ArcsinSqrt(cs.total_w_sim, cs.w_p)
      [] name = "Fai" -> Rat(2 * cs.w_a + cs.w_d, 2 * cs.w_p)
      [] name = "Gle" -> Rat(2 * cs.w_a, 2 * cs.w_a + cs.total_w_dis)
      [] name = "Ja" -> Rat(3 * cs.w_a, 3 * cs.w_a + cs.total_w_dis)
      [] name = "Ja0" -> Rat(3 * cs.total_w_sim, 3 * cs.total_w_sim + cs.total_w_dis)
      [] name = "JT" -> Rat(cs.w_a, cs.w_a + cs.total_w_dis)
      [] name = "RT" -> Rat(cs.total_w_sim, cs.w_p + cs.total_w_dis)
      [] name = "RR" -> Rat(cs.w_a, cs.w_p)
      [] name = "SM" -> Rat(cs.total_w_sim, cs.w_p)
      [] name = "SS1" -> Rat(cs.w_a, cs.w_a + 2 * cs.total_w_dis)
      [] name = "SS2" -> Rat(2 * cs.total_w_sim, cs.w_p + cs.total_w_sim)

\* lines 167-198: Indices['nw'][name]; the numerators are the weighted counters
NonWeightedIndex(cs, name) ==
    CASE name = "AC" -> ArcsinSqrt(cs.total_w_sim, cs.wscale * cs.p)
      [] name = "Fai" -> Rat(2 * cs.w_a + cs.w_d, 2 * cs.wscale * cs.p)
      [] name = "Gle" -> Rat(2 * cs.w_a, cs.wscale * (2 * cs.a + cs.total_dis))
      [] name = "Ja" -> Rat(3 * cs.w_a, cs.wscale * (3 * cs.a + cs.total_dis))
      [] name = "Ja0" ->
            Rat(3 * cs.total_w_sim, cs.wscale * (3 * cs.total_sim + cs.total_dis))
      [] name = "JT" -> Rat(cs.w_a, cs.wscale * (cs.a + cs.total_dis))
      [] name = "RT" -> Rat(cs.total_w_sim, cs.wscale * (cs.p + cs.total_dis))
      [] name = "RR" -> Rat(cs.w_a, cs.wscale * cs.p)
      [] name = "SM" -> Rat(cs.total_w_sim, cs.wscale * cs.p)
      [] name = "SS1" -> Rat(cs.w_a, cs.wscale * (cs.a + 2 * cs.total_dis))
      [] name = "SS2" -> Rat(2 * cs.total_w_sim, cs.wscale * (cs.p + cs.total_sim))

\* lines 125-233, followed by the caller's Indices[weight][name], for the
\* counters cs
index_value(cs, weight, name) ==
    IF cs.status = "raised" THEN [status |-> "raised", exc |-> cs.exc, value |-> Rat(0, 1)]
    ELSE IF 0 \in ZeroDivisors(cs)
    THEN [status |-> "raised", exc |-> "ZeroDivisionError", value |-> Rat(0, 1)]
    ELSE [status |-> "ok", exc |-> "",
          value |-> IF weight = "w" THEN WeightedIndex(cs, name)
                    ELSE NonWeightedIndex(cs, name)]

\* lines 123-124: the counters are always taken with w_factor="fraction"
gen_sim_dict(sets, c, weight, name) ==
    index_value(calculate_counters(sets, c, Str_fraction), weight, name)

\* lines 123-233: the dictionary gen_sim_dict returns when it is called with
\* c_threshold = c and w_factor = w, with the entries of RationalIndices;
\* line 124 passes the literal "fraction" on, not w
gen_sim_dict_call(sets, c, w) ==
    IF index_value(calculate_counters(sets, c, Str_fraction), "nw", "JT").status = "raised"
    THEN [status |-> "raised",
          exc |-> index_value(calculate_counters(sets, c, Str_fraction), "nw", "JT").exc,
          nw |-> <<>>, w |-> <<>>]
    ELSE [status |-> "ok", exc |-> "",
          nw |-> [name \in RationalIndices |->
                     NonWeightedIndex(calculate_counters(sets, c, Str_fraction), name)],
          w |-> [name \in RationalIndices |->
                    WeightedIndex(calculate_counters(sets, c, Str_fraction), name)]]

DictPending == [status |-> "pending", exc |-> "", nw |-> <<>>, w |-> <<>>]

-----------------------------------------------------------------------------
(* indices.indices_info and the index classes of src/indices *)

\* indices_info.py lines 5-22: class name |-> abbreviation and variants
Indices ==
    [AustinColwell |-> [abbr |-> "AC", variants |-> {"1sim_wdis", "1sim_dis"}],
     BaroniUrbaniBuser |-> [abbr |-> "BUB", variants |-> {"1sim_wdis", "1sim_dis"}],
     ConsoniTodeschini1 |-> [abbr |-> "CT1", variants |-> {"1sim_wdis", "1sim_dis"}],
     ConsoniTodeschini2 |-> [abbr |-> "CT2", variants |-> {"1sim_wdis", "1sim_dis"}],
     ConsoniTodeschini3 |-> [abbr |-> "CT3", variants |-> {"1sim_wdis", "1sim_dis"}],
     ConsoniTodeschini4 |-> [abbr |-> "CT4", variants |-> {"1sim_wdis", "1sim_dis"}],
     Faith |-> [abbr |-> "Fai", variants |-> {"1sim_wdis", "1sim_dis"}],
     Gleason |-> [abbr |-> "Gle", variants |-> {"1sim_wdis", "1sim_dis"}],
     GoodmanKruskal |-> [abbr |-> "GK", variants |-> {"1sim_wdis", "1sim_dis"}],
     HawkinsDotson |-> [abbr |-> "HD", variants |-> {"1sim_wdis", "1sim_dis"}],
     Jaccard |-> [abbr |-> "Ja",
                  variants |-> {"1sim_wdis", "1sim_dis", "sim_wdis", "sim_dis"}],
     JaccardTanimoto |-> [abbr |-> "JT", variants |-> {"1sim_wdis", "1sim_dis"}],
     RogersTanimoto |-> [abbr |-> "RT", variants |-> {"1sim_wdis", "1sim_dis"}],
     RogotGoldberd |-> [abbr |-> "RG", variants |-> {"1sim_wdis", "1sim_dis"}],
     RussellRao |-> [abbr |-> "RR", variants |-> {"1sim_wdis", "1sim_dis"}],
     SokalMichner |-> [abbr |-> "SM", variants |-> {"1sim_wdis", "1sim_dis"}],
     SokalSneath1 |-> [abbr |-> "SS1", variants |-> {"1sim_wdis", "1sim_dis"}],
     SokalSneath2 |-> [abbr |-> "SS2", variants |-> {"1sim_wdis", "1sim_dis"}]]

\* the catalog entries whose class has a module in src/indices
PresentClasses ==
    {"AustinColwell", "BaroniUrbaniBuser", "ConsoniTodeschini1", "ConsoniTodeschini4",
     "GoodmanKruskal", "HawkinsDotson", "Jaccard", "JaccardTanimoto", "RussellRao"}

\* the methods each __init__ calls after super().__init__, in order
InitCalls(cls) ==
    CASE cls = "AustinColwell" -> <<"ac_1sim_wdis", "ac_1sim_dis">>
      [] cls = "BaroniUrbaniBuser" -> <<"bub_1sim_wdis", "bub_1sim_dis">>
      [] cls = "ConsoniTodeschini1" -> <<"ct1_1sim_wdis", "ct1_1sim_dis">>
      [] cls = "ConsoniTodeschini4" ->
            <<"ct4_sim_wdis", "ct4_1sim_wdis", "ct4_sim_dis", "ct4_1sim_dis">>
      [] cls = "GoodmanKruskal" -> <<"gk_1sim_wdis", "gk_1sim_dis">>
      [] cls = "HawkinsDotson" -> <<"hd_1sim_wdis", "hd_1sim_dis">>
      [] cls = "Jaccard" ->
            <<"ja_sim_wdis", "ja_1sim_wdis", "ja_sim_dis", "ja_1sim_dis">>
      [] cls = "JaccardTanimoto" ->
            <<"jt_sim_wdis", "jt_1sim_wdis", "jt_sim_dis", "jt_1sim_dis">>
      [] cls = "RussellRao" ->
            <<"rr_sim_wdis", "rr_1sim_wdis", "rr_sim_dis", "rr_1sim_dis">>

\* the methods the classes define (BaseComparisons defines none of these names)
DefinedMethods ==
    {"ac_1sim_wdis", "ac_1sim_dis", "bub_1sim_wdis", "bub_1sim_dis",
     "ct1_1sim_wdis", "ct1_1sim_dis", "ct4_1sim_wdis", "ct4_1sim_dis",
     "gk_1sim_wdis", "gk_1sim_dis", "hd_1sim_wdis", "hd_1sim_dis",
     "ja_sim_wdis", "ja_1sim_wdis", "ja_sim_dis", "ja_1sim_dis",
     "jt_1sim_wdis", "jt_1sim_dis", "rr_1sim_wdis", "rr_1sim_dis"}

\* numerator/denominator of numpy scalars: a rational, or inf/nan (with a
\* warning, no exception) when the denominator is 0
Quot(num, den) ==
    IF den = 0 THEN [kind |-> "nan", num |-> 0, den |-> 1]
    ELSE [kind |-> "rat", num |-> num, den |-> den]

\* a value whose formula has a square root, a logarithm or an arcsine
RealValue == [kind |-> "real", num |-> 0, den |-> 1]

Min(x, y) == IF x < y THEN x ELSE y

\* 0.5 * (x + y) for two quotients
HalfSum(x, y) ==
    IF x.kind = "nan" \/ y.kind = "nan" THEN [kind |-> "nan", num |-> 0, den |-> 1]
    ELSE [kind |-> "rat", num |-> x.num * y.den + y.num * x.den, den |-> 2 * x.den * y.den]

Sets(attr, value) == [exc |-> "", attr |-> attr, value |-> value]

\* the body of each defined method for the counters o of the object: the
\* attribute it sets and its value, or the exception of a float division by
\* the math.log of 1.  Weighted counters are numerators over o.wscale.
method_result(meth, o) ==
    CASE meth = "ac_1sim_wdis" -> Sets("AC_1sim_wdis", RealValue)
      [] meth = "ac_1sim_dis" -> Sets("AC_1sim_dis", RealValue)
      [] meth = "bub_1sim_wdis" -> Sets("BUB_1sim_wdis", RealValue)
      [] meth = "bub_1sim_dis" -> Sets("BUB_1sim_dis", RealValue)
      [] meth = "ct1_1sim_wdis" ->
            IF o.w_p = 0 THEN [exc |-> "ZeroDivisionError", attr |-> "", value |-> RealValue]
            ELSE Sets("CT1_1sim_wdis", RealValue)
      [] meth = "ct1_1sim_dis" ->
            IF o.p = 0 THEN [exc |-> "ZeroDivisionError", attr |-> "", value |-> RealValue]
            ELSE Sets("CT1_1sim_dis", RealValue)
      [] meth = "ct4_1sim_wdis" ->
            IF o.w_a + o.total_w_dis = 0
            THEN [exc |-> "ZeroDivisionError", attr |-> "", value |-> RealValue]
            ELSE Sets("CT4_1sim_wdis", RealValue)
      [] meth = "ct4_1sim_dis" ->
            IF o.a + o.total_dis = 0
            THEN [exc |-> "ZeroDivisionError", attr |-> "", value |-> RealValue]
            ELSE Sets("CT4_1sim_dis", RealValue)
      [] meth = "gk_1sim_wdis" ->
            Sets("GK_1sim_wdis", Quot(2 * Min(o.w_a, o.w_d) - o.total_w_dis,
                                      2 * Min(o.w_a, o.w_d) + o.total_w_dis))
      [] meth = "gk_1sim_dis" ->
            Sets("GK_1sim_dis", Quot(2 * Min(o.w_a, o.w_d) - o.total_w_dis,
                                     o.wscale * (2 * Min(o.a, o.d) + o.total_dis)))
      [] meth = "hd_1sim_wdis" ->
            Sets("HD_1sim_wdis", HalfSum(Quot(o.w_a, o.w_a + o.total_w_dis),
                                         Quot(o.w_d, o.w_d + o.total_w_dis)))
      [] meth = "hd_1sim_dis" ->
            Sets("HD_1sim_dis", HalfSum(Quot(o.w_a, o.wscale * (o.a + o.total_dis)),
                                        Quot(o.w_d, o.wscale * (o.d + o.total_dis))))
      [] meth = "ja_sim_wdis" ->
            Sets("Ja_sim_wdis", Quot(3 * o.total_w_sim, 3 * o.total_w_sim + o.total_w_dis))
      [] meth = "ja_1sim_wdis" ->
            Sets("Ja_1sim_wdis", Quot(3 * o.w_a, 3 * o.w_a + o.total_w_dis))
      [] meth = "ja_sim_dis" ->
            Sets("Ja_sim_dis", Quot(3 * o.total_w_sim,
                                    o.wscale * (3 * o.total_sim + o.total_dis)))
      [] meth = "ja_1sim_dis" ->
            Sets("Ja_1sim_dis", Quot(3 * o.w_a, o.wscale * (3 * o.a + o.total_dis)))
      [] meth = "jt_1sim_wdis" ->
            Sets("JT_1sim_wdis", Quot(o.w_a, o.w_a + o.total_w_dis))
      [] meth = "jt_1sim_dis" ->
            Sets("JT_1sim_dis", Quot(o.w_a, o.wscale * (o.a + o.total_dis)))
      [] meth = "rr_1sim_wdis" -> Sets("RR_1sim_wdis", Quot(o.w_a, o.w_p))
      [] meth = "rr_1sim_dis" -> Sets("RR_1sim_dis", Quot(o.w_a, o.wscale * o.p))

IndexRaised(e) == [status |-> "raised", exc |-> e, attrs |-> <<>>]

IndexPending == [status |-> "pending", exc |-> "", attrs |-> <<>>]

\* the calls of __init__ from the k-th on; attrs are the attributes set so far
RECURSIVE index_init(_, _, _, _)
index_init(cls, o, k, attrs) ==
    IF k > Len(InitCalls(cls)) THEN [status |-> "ok", exc |-> "", attrs |-> attrs]
    ELSE IF InitCalls(cls)[k] \notin DefinedMethods THEN IndexRaised("AttributeError")
    ELSE IF method_result(InitCalls(cls)[k], o).exc # ""
    THEN IndexRaised(method_result(InitCalls(cls)[k], o).exc)
    ELSE index_init(cls, o, k + 1,
                    (method_result(InitCalls(cls)[k], o).attr
                        :> method_result(InitCalls(cls)[k], o).value) @@ attrs)

\* the __init__ of the class after super().__init__ gave the object o
index_after_super(cls, o) ==
    IF o.status = "raised" THEN IndexRaised(o.exc) ELSE index_init(cls, o, 1, <<>>)

\* cls(fingerprints, c_threshold, w_factor)
IndexObject(cls, fp, c, w) == index_after_super(cls, BaseComparisons(fp, c, w))

\* _rank_array has not been called
RanksPending == [status |-> "pending", value |-> <<>>]

\* the remaining variables while another part of the program is exercised
RestIdle ==
    /\ sim_dict = DictPending
    /\ index_obj = IndexPending
    /\ seed_again = -1
    /\ rank_arg = <<>>
    /\ ranks = RanksPending

-----------------------------------------------------------------------------
(* ECS_MeDiv.calculate_medoid, get_single_index, get_new_index_n *)

\* the literal 3.08 of lines 238, 272 and 292
InitialMin == Rat(308, 100)

\* len(total_data) and len(total_data[0]) of a Python-indexed array
NumRows(td) == Cardinality(DOMAIN td)
RowLen(td) == Len(td[0])

\* lines 237, 254, 271, 295: the placeholder index
Placeholder(td) == RowLen(td) + 1

\* the mutant of medoid_step: <= instead of <
medoid_step_le(acc, i, r) ==
    IF r.status = "raised" THEN [acc EXCEPT !.exc = r.exc]
    ELSE IF ~RatLt(acc.min_sim, r.value)
         THEN [acc EXCEPT !.index = i, !.min_sim = r.value]
         ELSE acc

\* lines 244-249: what the value r of leaving row i out does to index and min_sim
medoid_step(acc, i, r) ==
    IF r.status = "raised" THEN [acc EXCEPT !.exc = r.exc]
    ELSE IF RatLt(r.value, acc.min_sim)
         THEN [acc EXCEPT !.index = i, !.min_sim = r.value]
         ELSE acc

\* lines 240-249: the loop of calculate_medoid from row i on
RECURSIVE calculate_medoid_loop(_, _, _, _, _, _)
calculate_medoid_loop(td, total_sum, i, name, weight, acc) ==
    IF i >= NumRows(td) \/ acc.exc # "" THEN acc
    ELSE calculate_medoid_loop(td, total_sum, i + 1, name, weight,
            medoid_step(acc, i,
                gen_sim_dict(<<VecSub(total_sum, td[i]) \o <<NumRows(td) - 1>>>>,
                             PyNone, weight, name)))

\* lines 235-250
calculate_medoid(td, name, weight) ==
    calculate_medoid_loop(td, SumRows(td, NumRows(td)), 0, name, weight,
                          [index |-> Placeholder(td), min_sim |-> InitialMin, exc |-> ""])

\* the literal -3.08 of line 255
InitialMax == Rat(-308, 100)

\* lines 261-266: what the value r of leaving row i out does to index and max_sim
outlier_step(acc, i, r) ==
    IF r.status = "raised" THEN [acc EXCEPT !.exc = r.exc]
    ELSE IF RatLt(acc.max_sim, r.value)
         THEN [acc EXCEPT !.index = i, !.max_sim = r.value]
         ELSE acc

\* lines 257-266: the loop of calculate_outlier from row i on
RECURSIVE calculate_outlier_loop(_, _, _, _, _, _)
calculate_outlier_loop(td, total_sum, i, name, weight, acc) ==
    IF i >= NumRows(td) \/ acc.exc # "" THEN acc
    ELSE calculate_outlier_loop(td, total_sum, i + 1, name, weight,
            outlier_step(acc, i,
                gen_sim_dict(<<VecSub(total_sum, td[i]) \o <<NumRows(td) - 1>>>>,
                             PyNone, weight, name)))

\* lines 252-267
calculate_outlier(td, name, weight) ==
    calculate_outlier_loop(td, SumRows(td, NumRows(td)), 0, name, weight,
                           [index |-> Placeholder(td), max_sim |-> InitialMax, exc |-> ""])

\* line 280: v += sim_index
pairwise_step(acc, r) ==
    IF r.status = "raised" THEN [acc EXCEPT !.exc = r.exc]
    ELSE [acc EXCEPT !.v = RatAdd(@, r.value)]

\* lines 274-280: the sum v of the pairwise values of candidate i over the
\* members sel[k..] of the selection
RECURSIVE pairwise_sum(_, _, _, _, _, _, _, _)
pairwise_sum(td, i, sel, k, c, name, weight, acc) ==
    IF k > Len(sel) \/ acc.exc # "" THEN acc
    ELSE pairwise_sum(td, i, sel, k + 1, c, name, weight,
            pairwise_step(acc,
                gen_sim_dict(<<VecAdd(td[sel[k]], td[i]) \o <<2>>>>, c, weight, name)))

\* lines 281-284: what the sum s.v of candidate i does to index and min_value
single_index_step(acc, i, s, len_selected) ==
    IF s.exc # "" THEN [acc EXCEPT !.exc = s.exc]
    ELSE IF RatLt(Rat(s.v.num, s.v.den * (len_selected + 1)), acc.min_value)
         THEN [acc EXCEPT !.index = i,
                          !.min_value = Rat(s.v.num, s.v.den * (len_selected + 1))]
         ELSE acc

\* lines 273-284: the loop of get_single_index over the tie list from position k
RECURSIVE get_single_index_loop(_, _, _, _, _, _, _, _)
get_single_index_loop(td, ties, k, sel, c, name, weight, acc) ==
    IF k > Len(ties) \/ acc.exc # "" THEN acc
    ELSE get_single_index_loop(td, ties, k + 1, sel, c, name, weight,
            single_index_step(acc, ties[k],
                IF ties[k] \in DOMAIN td
                THEN pairwise_sum(td, ties[k], sel, 1, c, name, weight,
                                  [v |-> Rat(0, 1), exc |-> ""])
                ELSE [v |-> Rat(0, 1), exc |-> "IndexError"],
                Len(sel)))

\* lines 269-285
get_single_index(td, ties, sel, c, name, weight) ==
    get_single_index_loop(td, ties, 1, sel, c, name, weight,
                          [index |-> Placeholder(td), min_value |-> InitialMin, exc |-> ""])

\* the mutant of candidate_step: equal values replace the tie list
candidate_step_le(acc, i, value) ==
    IF ~RatLt(acc.min_value, value)
    THEN [acc EXCEPT !.indices = <<i>>, !.min_value = value]
    ELSE acc

\* lines 306-310: what one candidate does to indices and min_value
candidate_step(acc, i, value) ==
    IF RatLt(value, acc.min_value)
    THEN [acc EXCEPT !.indices = <<i>>, !.min_value = value]
    ELSE IF RatEq(value, acc.min_value)
         THEN [acc EXCEPT !.indices = Append(@, i)]
         ELSE acc

\* lines 300-304: the value of the trial set (running aggregate + fingerprint i)
trial_value(td, sc, n_total, i, c, name, weight) ==
    gen_sim_dict(<<VecAdd(sc, td[i]) \o <<n_total>>>>, c, weight, name)

\* lines 304-310 for one candidate whose trial value is r
candidate_result(acc, i, r) ==
    IF r.status = "raised" THEN [acc EXCEPT !.exc = r.exc]
    ELSE candidate_step(acc, i, r.value)

\* lines 298-310: the loop over the candidates select_from[k..]
RECURSIVE get_new_index_n_loop(_, _, _, _, _, _, _, _, _)
get_new_index_n_loop(td, sc, n_total, select_from, k, c, name, weight, acc) ==
    IF k > Len(select_from) \/ acc.exc # "" THEN acc
    ELSE get_new_index_n_loop(td, sc, n_total, select_from, k + 1, c, name, weight,
            candidate_result(acc, select_from[k],
                trial_value(td, sc, n_total, select_from[k], c, name, weight)))

\* lines 311-316: the index returned for the tie list of r; the tie-breaker is
\* called with c_threshold=None and weight='nw'
pick_index(td, sel, name, r) ==
    IF r.exc # "" THEN [index |-> -1, indices |-> r.indices, exc |-> r.exc]
    ELSE IF Len(r.indices) = 1
         THEN [index |-> r.indices[1], indices |-> r.indices, exc |-> ""]
         ELSE [indices |-> r.indices]
              @@ [x \in {"index", "exc"} |->
                    get_single_index(td, r.indices, sel, PyNone, name, "nw")[x]]

\* lines 287-316: [index, indices, exc]
get_new_index_n(td, sc, nn, select_from, sel, c, name, weight) ==
    pick_index(td, sel, name,
        get_new_index_n_loop(td, sc, nn + 1, select_from, 1, c, name, weight,
            [indices |-> <<Placeholder(td)>>, min_value |-> InitialMin, exc |-> ""]))

\* np.delete(total_indices, selected_n): the indices 0..P-1 that are not
\* selected, in increasing order, from index i on
RECURSIVE np_delete(_, _, _)
np_delete(P, sel, i) ==
    IF i >= P THEN <<>>
    ELSE (IF \E k \in 1..Len(sel) : sel[k] = i THEN <<>> ELSE <<i>>)
         \o np_delete(P, sel, i + 1)

-----------------------------------------------------------------------------
(* One call of the counter engine: the inputs *)

\* arrays of P binary fingerprints of length m
Arrays(P, m) == [0..(P - 1) -> BinVec(m)]

RectangularInputs ==
    UNION {{FpArray(P, rows) : rows \in Arrays(P, m)} :
           <<P, m>> \in (1..MaxN) \X (1..MaxLen)}

\* two fingerprints of different lengths
RaggedInputs ==
    LET Rows == UNION {BinVec(m) : m \in 1..MaxLen}
    IN  {FpArray(Cardinality({0, 1}), rows) :
            rows \in {r \in [{0, 1} -> Rows] : Len(r[0]) # Len(r[1])}}

IntInputs == {FpInt(i) : i \in 0..MaxN}

\* [column sums of nf fingerprints of length m, nf], as the callers build it
Aggregates ==
    UNION {{<<agg \o <<nf>>>> : agg \in [1..m -> 0..nf]} :
           <<nf, m>> \in (1..MaxN) \X (1..MaxLen)}

\* the collection of four fingerprints of length three of the end-to-end
\* scenario, and its aggregate as the callers build it
ScenarioCollection ==
    FpArray(4, (0 :> <<1, 1, 0>>) @@ (1 :> <<1, 0, 0>>)
               @@ (2 :> <<1, 1, 1>>) @@ (3 :> <<0, 0, 0>>))

ScenarioAggregate ==
    <<SumRows(ScenarioCollection.rows, ScenarioCollection.n) \o <<ScenarioCollection.n>>>>

Thresholds ==
    {PyNone, PyStr("min"), PyStr("dissimilar"), PyStr("bogus")}
    \cup {PyInt(i) : i \in (-1)..MaxN}
    \cup {PyFloat(1, 2), PyFloat(3, 2), PyFloat(-1, 2), PyFloat(2 * MaxN + 1, 2)}

WFactors ==
    {Str_fraction, Str_power_2, Str_power_0, Str_power_neg2, Str_power_n, Str_ones, WNone}

\* the selection run's variables while the counter engine is exercised
SelIdle ==
    /\ total_data = <<>>
    /\ loaded = <<>>
    /\ n_ary = ""
    /\ pc = "idle"
    /\ seed = -1
    /\ selected_n = <<>>
    /\ sc_row = -1
    /\ n = 0
    /\ exc = [type |-> "", at |-> ""]
    /\ iters = 0
    /\ new_index_n = -1
    /\ indices = <<>>
    /\ DiversityDict = <<>>

InitCount ==
    /\ \/ /\ call = "calculate_counters"
          /\ data_sets \in Aggregates \cup {ScenarioAggregate}
          /\ fingerprints = FpInt(0)
       \/ /\ call = "BaseComparisons"
          /\ data_sets = <<>>
          /\ fingerprints \in RectangularInputs \cup RaggedInputs \cup IntInputs
                                \cup {ScenarioCollection}
    /\ c_threshold \in Thresholds
    /\ w_factor \in WFactors
    /\ counters = Pending
    /\ bc = ObjPending
    /\ SelIdle
    /\ RestIdle

\* counters = calculate_counters(data_sets, c_threshold=..., w_factor=...)
CallCalculateCounters ==
    /\ call = "calculate_counters"
    /\ counters.status = "pending"
    /\ counters' = calculate_counters(data_sets, c_threshold, w_factor)
    /\ UNCHANGED <<call, data_sets, fingerprints, c_threshold, w_factor, bc>>
    /\ UNCHANGED selVars
    /\ UNCHANGED restVars

\* bc = BaseComparisons(fingerprints, c_threshold=..., w_factor=...)
NewBaseComparisons ==
    /\ call = "BaseComparisons"
    /\ bc.status = "pending"
    /\ bc' = BaseComparisons(fingerprints, c_threshold, w_factor)
    /\ UNCHANGED <<call, data_sets, fingerprints, c_threshold, w_factor, counters>>
    /\ UNCHANGED selVars
    /\ UNCHANGED restVars

NextCount == CallCalculateCounters \/ NewBaseComparisons

SpecCount == InitCount /\ [][NextCount]_vars

-----------------------------------------------------------------------------
(* One call of gen_sim_dict, or one construction of an index class *)

\* the aggregate of a collection, as the callers of gen_sim_dict build it
AggregateOf(fp) == <<SumRows(fp.rows, fp.n) \o <<fp.n>>>>

InitIndex ==
    /\ call \in {"gen_sim_dict"} \cup PresentClasses
    /\ fingerprints \in RectangularInputs \cup {ScenarioCollection}
    /\ data_sets = IF call = "gen_sim_dict" THEN AggregateOf(fingerprints) ELSE <<>>
    /\ c_threshold \in Thresholds
    /\ w_factor \in WFactors
    /\ counters = Pending
    /\ bc = ObjPending
    /\ SelIdle
    /\ RestIdle

\* sim_dict = gen_sim_dict(data_sets, c_threshold=..., w_factor=...)
CallGenSimDict ==
    /\ call = "gen_sim_dict"
    /\ sim_dict.status = "pending"
    /\ sim_dict' = gen_sim_dict_call(data_sets, c_threshold, w_factor)
    /\ UNCHANGED <<index_obj, seed_again>>
    /\ UNCHANGED rankVars
    /\ UNCHANGED countVars
    /\ UNCHANGED selVars

\* index_obj = <call>(fingerprints, c_threshold=..., w_factor=...)
NewIndexObject ==
    /\ call \in PresentClasses
    /\ index_obj.status = "pending"
    /\ index_obj' = IndexObject(call, fingerprints, c_threshold, w_factor)
    /\ UNCHANGED <<sim_dict, seed_again>>
    /\ UNCHANGED rankVars
    /\ UNCHANGED countVars
    /\ UNCHANGED selVars

NextIndex == CallGenSimDict \/ NewIndexObject

SpecIndex == InitIndex /\ [][NextIndex]_vars

-----------------------------------------------------------------------------
(* One selection run of the ECS_MeDiv script: one file, one index name *)

\* the index names of line 319 whose values the model computes
NAryNames == {"AC", "RR", "JT", "SM"}

\* selected_condensed: a view of the row total_data[sc_row] (line 357)
selected_condensed == total_data[sc_row]

\* total_indices of line 343, as its length
fp_total == NumRows(total_data)

NoExc == [type |-> "", at |-> ""]

CounterIdle ==
    /\ call = "script"
    /\ data_sets = <<>>
    /\ fingerprints = FpInt(0)
    /\ c_threshold = PyStr("min")
    /\ w_factor = Str_fraction
    /\ counters = Pending
    /\ bc = ObjPending

\* lines 323-343: the array as loaded from the file
InitSel ==
    /\ \E P \in 2..MaxPool, m \in 1..MaxLen : total_data \in Arrays(P, m)
    /\ loaded = total_data
    /\ n_ary \in NAryNames
    /\ pc = "seed"
    /\ seed = -1
    /\ selected_n = <<>>
    /\ sc_row = -1
    /\ n = 0
    /\ exc = NoExc
    /\ iters = 0
    /\ new_index_n = -1
    /\ indices = <<>>
    /\ DiversityDict = <<>>
    /\ CounterIdle
    /\ RestIdle

\* lines 354-360 for the result r of calculate_medoid
SeedWith(r) ==
    IF r.exc # ""
    THEN /\ pc' = "raised"
         /\ exc' = [type |-> r.exc, at |-> "calculate_medoid"]
         /\ UNCHANGED <<seed, selected_n, sc_row, n>>
    ELSE IF r.index \notin DOMAIN total_data
    THEN /\ pc' = "raised"
         /\ exc' = [type |-> "IndexError", at |-> "seed"]
         /\ seed' = r.index
         /\ selected_n' = <<r.index>>
         /\ UNCHANGED <<sc_row, n>>
    ELSE /\ pc' = "while"
         /\ seed' = r.index
         /\ selected_n' = <<r.index>>
         /\ sc_row' = r.index
         /\ n' = 1
         /\ exc' = NoExc

\* lines 346-360: the seed, the selection and the running aggregate
Seed ==
    /\ pc = "seed"
    /\ SeedWith(calculate_medoid(total_data, n_ary, "nw"))
    /\ UNCHANGED <<total_data, loaded, n_ary, iters, new_index_n, indices, DiversityDict>>
    /\ UNCHANGED countVars
    /\ UNCHANGED restVars

\* line 363
select_from_n == np_delete(fp_total, selected_n, 0)

\* lines 369-377 for the result r of get_new_index_n
IterateWith(r) ==
    IF r.exc # ""
    THEN /\ pc' = "raised"
         /\ exc' = [type |-> r.exc, at |-> "get_new_index_n"]
         /\ UNCHANGED <<total_data, selected_n, n, iters, new_index_n, indices>>
    ELSE IF r.index \notin DOMAIN total_data
    THEN /\ pc' = "raised"
         /\ exc' = [type |-> "IndexError", at |-> "update"]
         /\ new_index_n' = r.index
         /\ indices' = r.indices
         /\ UNCHANGED <<total_data, selected_n, n, iters>>
    ELSE /\ total_data' = [total_data EXCEPT
                             ![sc_row] = VecAdd(@, total_data[r.index])]
         /\ selected_n' = Append(selected_n, r.index)
         /\ n' = Len(selected_n) + 1
         /\ iters' = iters + 1
         /\ new_index_n' = r.index
         /\ indices' = r.indices
         /\ UNCHANGED <<pc, exc>>

\* lines 361-377: one pass through the body of the while loop
Iterate ==
    /\ pc = "while"
    /\ Len(selected_n) < TargetK
    /\ IterateWith(get_new_index_n(total_data, selected_condensed, n, select_from_n,
                                   selected_n, c_threshold, n_ary, "nw"))
    /\ UNCHANGED <<loaded, n_ary, seed, sc_row, DiversityDict>>
    /\ UNCHANGED countVars
    /\ UNCHANGED restVars

\* line 361: the loop condition is false
ExitLoop ==
    /\ pc = "while"
    /\ ~(Len(selected_n) < TargetK)
    /\ pc' = "store"
    /\ UNCHANGED <<total_data, loaded, n_ary, seed, selected_n, sc_row, n, exc,
                   iters, new_index_n, indices, DiversityDict>>
    /\ UNCHANGED countVars
    /\ UNCHANGED restVars

\* line 378: DiversityDict[c_threshold][base_name] = selected_n
Store ==
    /\ pc = "store"
    /\ IF c_threshold.s \in DOMAIN DiversityDict
       THEN /\ DiversityDict' = [DiversityDict EXCEPT
                                   ![c_threshold.s] = [file |-> selected_n]]
            /\ pc' = "stored"
            /\ UNCHANGED exc
       ELSE /\ pc' = "raised"
            /\ exc' = [type |-> "KeyError", at |-> "store"]
            /\ UNCHANGED DiversityDict
    /\ UNCHANGED <<total_data, loaded, n_ary, seed, selected_n, sc_row, n, iters,
                   new_index_n, indices>>
    /\ UNCHANGED countVars
    /\ UNCHANGED restVars

NextSel == Seed \/ Iterate \/ ExitLoop \/ Store

SpecSel == InitSel /\ [][NextSel]_vars

-----------------------------------------------------------------------------
(* One call of a seed function: calculate_medoid or calculate_outlier *)

\* the collection the function is called with, and the index name
InitStart ==
    /\ \E P \in 2..MaxRows, m \in 1..MaxLen : total_data \in Arrays(P, m)
    /\ loaded = total_data
    /\ n_ary \in NAryNames
    /\ pc = "start"
    /\ seed = -1
    /\ selected_n = <<>>
    /\ sc_row = -1
    /\ n = 0
    /\ exc = NoExc
    /\ iters = 0
    /\ new_index_n = -1
    /\ indices = <<>>
    /\ DiversityDict = <<>>
    /\ CounterIdle
    /\ RestIdle

\* the mutant of total_data_after: every leave-one-out sum is written over
\* its row
total_data_after_inplace(td) ==
    [i \in DOMAIN td |-> VecSub(SumRows(td, NumRows(td)), td[i])]

\* lines 239-242 and 256-259: total_sum and i_sum are new arrays, and no
\* element of total_data is assigned; the collection after the call
total_data_after(td) == td

\* seed = fn(total_data, n_ary = n_ary) for the result r of fn
StartWith(r, fn) ==
    /\ pc' = fn
    /\ seed' = IF r.exc # "" THEN seed ELSE r.index
    /\ exc' = IF r.exc # "" THEN [type |-> r.exc, at |-> fn] ELSE NoExc
    /\ total_data' = total_data_after(total_data)
    /\ UNCHANGED <<loaded, n_ary, selected_n, sc_row, n, iters,
                   new_index_n, indices, DiversityDict>>
    /\ UNCHANGED countVars
    /\ UNCHANGED restVars

\* line 347: seed = calculate_medoid(total_data, n_ary = n_ary)
CallCalculateMedoid ==
    /\ pc = "start"
    /\ StartWith(calculate_medoid(total_data, n_ary, "nw"), "calculate_medoid")

\* line 351: seed = calculate_outlier(total_data, n_ary = n_ary)
CallCalculateOutlier ==
    /\ pc = "start"
    /\ StartWith(calculate_outlier(total_data, n_ary, "nw"), "calculate_outlier")

\* seed_again = calculate_medoid(total_data, n_ary = n_ary) for its result r
AgainWith(r) ==
    /\ pc' = "calculate_medoid_again"
    /\ seed_again' = IF r.exc # "" THEN seed_again ELSE r.index
    /\ exc' = IF r.exc # "" THEN [type |-> r.exc, at |-> "calculate_medoid_again"]
              ELSE NoExc
    /\ total_data' = total_data_after(total_data)
    /\ UNCHANGED <<loaded, n_ary, seed, selected_n, sc_row, n, iters,
                   new_index_n, indices, DiversityDict>>
    /\ UNCHANGED countVars
    /\ UNCHANGED <<sim_dict, index_obj>>
    /\ UNCHANGED rankVars

\* calculate_medoid called once more on the same collection after it returned
CallCalculateMedoidAgain ==
    /\ pc = "calculate_medoid"
    /\ exc = NoExc
    /\ AgainWith(calculate_medoid(total_data, n_ary, "nw"))

NextStart == CallCalculateMedoid \/ CallCalculateOutlier \/ CallCalculateMedoidAgain

SpecStart == InitStart /\ [][NextStart]_vars

-----------------------------------------------------------------------------
(* post_processing.srd._rank_array; a Python list is a sequence, and position *)
(* i of the list is position i + 1 of the sequence                           *)

\* line 137: order = array.argsort(), the positions in an order that sorts the
\* array; numpy's default sort fixes no order among equal elements
ArgSorts(arr) ==
    {f \in [1..Len(arr) -> 1..Len(arr)] :
        /\ \A i, j \in 1..Len(arr) : f[i] = f[j] => i = j
        /\ \A k \in 1..(Len(arr) - 1) : arr[f[k]] <= arr[f[k + 1]]}

\* line 138: list(order.argsort() + 1), the place of each element in order
non_repeated_ranks(order) ==
    [i \in 1..Len(order) |-> CHOOSE k \in 1..Len(order) : order[k] = i]

\* line 139: list(rankdata(array, method="min")), one more than the number of
\* smaller elements
repeated_ranks(arr) ==
    [i \in 1..Len(arr) |-> 1 + Cardinality({j \in 1..Len(arr) : arr[j] < arr[i]})]

\* repeated_ranks.count(x) of line 142
Count(list, x) == Cardinality({j \in 1..Len(list) : list[j] = x})

\* line 145: the positions whose repeated rank is x
SameRank(rr, x) == {j \in 1..Len(rr) : rr[j] = x}

\* lines 146-148: value += non_repeated_ranks[index] over the positions of S
RECURSIVE SumRanks(_, _)
SumRanks(nr, S) ==
    IF S = {} THEN 0
    ELSE LET j == CHOOSE x \in S : TRUE IN nr[j] + SumRanks(nr, S \ {j})

\* the mutant of tied_rank: the lowest rank of the positions
tied_rank_lowest(nr, S) ==
    Rat(CHOOSE r \in {nr[j] : j \in S} : \A j \in S : r <= nr[j], 1)

\* line 149: value = value/len(indices)
tied_rank(nr, S) == Rat(SumRanks(nr, S), Cardinality(S))

\* lines 140-152 for the lists nr and rr of lines 138 and 139
ranks_of(nr, rr) ==
    [i \in 1..Len(rr) |->
        IF Count(rr, rr[i]) = 1 THEN Rat(nr[i], 1)
        ELSE tied_rank(nr, SameRank(rr, rr[i]))]

\* lines 116-152 when argsort returns order
rank_array(arr, order) == ranks_of(non_repeated_ranks(order), repeated_ranks(arr))

\* the arrays handed to _rank_array
RankInputs == UNION {[1..L -> 0..MaxVal] : L \in 0..MaxArr}

InitRank ==
    /\ rank_arg \in RankInputs
    /\ ranks = RanksPending
    /\ CounterIdle
    /\ SelIdle
    /\ sim_dict = DictPending
    /\ index_obj = IndexPending
    /\ seed_again = -1

\* ranks = _rank_array(rank_arg)
CallRankArray ==
    /\ ranks.status = "pending"
    /\ \E order \in ArgSorts(rank_arg) :
          ranks' = [status |-> "ok", value |-> rank_array(rank_arg, order)]
    /\ UNCHANGED <<rank_arg, sim_dict, index_obj, seed_again>>
    /\ UNCHANGED countVars
    /\ UNCHANGED selVars

NextRank == CallRankArray

SpecRank == InitRank /\ [][NextRank]_vars

-----------------------------------------------------------------------------
(* The functions that pick an index: a selection run, or a seed function *)
(* called on its own                                                     *)

SpecPick == (InitSel \/ InitStart) /\ [][NextSel \/ NextStart]_vars

-----------------------------------------------------------------------------
(* Properties of one call of the counter engine *)

\* the aggregate and the population size a finished call worked on
CallAggregate ==
    IF call = "calculate_counters"
    THEN SubSeq(data_sets[1], 1, Len(data_sets[1]) - 1)
    ELSE SumRows(fingerprints.rows, fingerprints.n)

CallN ==
    IF call = "calculate_counters"
    THEN data_sets[1][Len(data_sets[1])]
    ELSE fingerprints.n

\* the result of the call, with the fields both results share
CallResult == IF call = "calculate_counters" THEN counters ELSE bc

\* the call returned counters computed from columns
CountedColumns ==
    /\ CallResult.status = "ok"
    /\ call = "BaseComparisons" => fingerprints.mode = "array"

\* the effective threshold of the result lies in [0, n)
ValidThreshold(r) ==
    /\ r.c_num >= 0
    /\ r.c_num < r.n_fingerprints * r.c_den

\* the columns of the aggregate in each class, for threshold num/den
OneSimilar(agg, nf, r) ==
    {j \in 1..Len(agg) : (2 * agg[j] - nf) * r.c_den > r.c_num}

ZeroSimilar(agg, nf, r) ==
    {j \in 1..Len(agg) : (nf - 2 * agg[j]) * r.c_den > r.c_num} \ OneSimilar(agg, nf, r)

Dissimilar(agg, nf, r) ==
    (1..Len(agg)) \ (OneSimilar(agg, nf, r) \cup ZeroSimilar(agg, nf, r))

\* C1: for n >= 2 and an effective threshold in [0, n), a is the number of
\* columns with 2s - n > c, d the number of the remaining columns with
\* n - 2s > c, and total_dis the number of all other columns, in the result of
\* calculate_counters and in a BaseComparisons built from an array.
C1_Classification ==
    (CountedColumns /\ CallN >= 2 /\ ValidThreshold(CallResult)) =>
        /\ CallResult.a = Cardinality(OneSimilar(CallAggregate, CallN, CallResult))
        /\ CallResult.d = Cardinality(ZeroSimilar(CallAggregate, CallN, CallResult))
        /\ CallResult.total_dis
              = Cardinality(Dissimilar(CallAggregate, CallN, CallResult))

\* C1 witness: calculate_counters returned with a 1-similar and a dissimilar
\* column under a valid threshold that is not an integer (f * n)
C1_Witness ==
    /\ call = "calculate_counters"
    /\ counters.status = "ok"
    /\ CallN >= 2
    /\ ValidThreshold(counters)
    /\ counters.c_num % counters.c_den # 0
    /\ counters.a = 1
    /\ counters.total_dis = 1

\* C2: counter conservation.  For n >= 2 and an effective threshold in [0, n)
\* the returned counters satisfy a + d + total_dis = p, total_sim = a + d,
\* w_a + w_d + total_w_dis = w_p, and p is the number of columns.
C2_Conservation ==
    (CountedColumns /\ CallN >= 2 /\ ValidThreshold(CallResult)) =>
        /\ CallResult.a + CallResult.d + CallResult.total_dis = CallResult.p
        /\ CallResult.total_sim = CallResult.a + CallResult.d
        /\ CallResult.w_a + CallResult.w_d + CallResult.total_w_dis = CallResult.w_p
        /\ CallResult.p = Len(CallAggregate)

\* C2 witness: a BaseComparisons object over an array with columns in all of
\* a or d, and dis, under fraction weights
C2_Witness ==
    /\ call = "BaseComparisons"
    /\ bc.status = "ok"
    /\ fingerprints.mode = "array"
    /\ ValidThreshold(bc)
    /\ w_factor = Str_fraction
    /\ bc.total_sim = 1
    /\ bc.total_dis = 1
    /\ bc.w_p > 0

\* the threshold the documentation promises for argument c and n fingerprints,
\* as num/den; covered is FALSE for arguments the sentence does not speak of
PromisedThreshold(c, nf) ==
    CASE c.kind = "None" -> [covered |-> TRUE, num |-> nf % 2, den |-> 1]
      [] c.kind = "str" /\ c.s = "dissimilar" ->
            [covered |-> TRUE, num |-> CeilHalf(nf), den |-> 1]
      [] c.kind = "int" /\ 0 <= c.num /\ c.num < nf ->
            [covered |-> TRUE, num |-> c.num, den |-> 1]
      [] c.kind = "float" /\ 0 < c.num /\ c.num < c.den ->
            [covered |-> TRUE, num |-> c.num * nf, den |-> c.den]
      [] OTHER -> [covered |-> FALSE, num |-> 0, den |-> 1]

\* C3: the effective threshold of a call that returns is n mod 2 for None,
\* ceil(n/2) for 'dissimilar', t for an integer t with 0 <= t < n (t = 0
\* included) and f*n for a float f in (0, 1).
C3_EffectiveThreshold ==
    LET want == PromisedThreshold(c_threshold, CallN)
    IN  (CallResult.status = "ok" /\ CallN >= 2 /\ want.covered) =>
            CallResult.c_num * want.den = want.num * CallResult.c_den

\* the threshold argument is a string that names no mode, or a number outside
\* [0, n)
MalformedThreshold(c, nf) ==
    \/ c.kind = "str" /\ c.s \notin {"min", "dissimilar"}
    \/ c.kind \in {"int", "float"} /\ (c.num < 0 \/ c.num >= nf * c.den)

\* C4: a call with a malformed threshold raises and returns no counters.
C4_MalformedThresholdRejected ==
    (CallResult.status # "pending" /\ CallN >= 2
        /\ MalformedThreshold(c_threshold, CallN)) =>
            CallResult.status = "raised"

\* the fingerprints of a BaseComparisons call do not all have the same length
UnequalLengths ==
    /\ call = "BaseComparisons"
    /\ fingerprints.mode = "array"
    /\ \E i \in 0..(fingerprints.n - 1) :
          Len(fingerprints.rows[i]) # Len(fingerprints.rows[0])

\* C5: a call for fewer than 2 fingerprints (array mode, integer mode,
\* calculate_counters) or for fingerprints of unequal length raises, whatever
\* well-formed threshold it is given.
C5_SmallOrRaggedRejected ==
    (CallResult.status # "pending" /\ (CallN < 2 \/ UnequalLengths)
        /\ ~MalformedThreshold(c_threshold, CallN)) =>
            CallResult.status = "raised"

\* the permutations of the row indices 0..P-1
RowOrders(P) ==
    {f \in [0..(P - 1) -> 0..(P - 1)] :
        \A i, j \in 0..(P - 1) : f[i] = f[j] => i = j}

\* the rows of fp in the order f
Permuted(fp, f) == FpArray(fp.n, [i \in 0..(fp.n - 1) |-> fp.rows[f[i]]])

\* C16: order invariance.  A BaseComparisons built from the rows of the
\* collection in any other order has the same matches and the same counters,
\* weighted and unweighted (and fails the same way when the call fails).
C16_OrderInvariance ==
    (call = "BaseComparisons" /\ bc.status # "pending" /\ fingerprints.mode = "array") =>
        \A f \in RowOrders(fingerprints.n) :
            BaseComparisons(Permuted(fingerprints, f), c_threshold, w_factor) = bc

\* C16 witness: an object over three fingerprints that are not all the same,
\* with a similar and a dissimilar column
C16_Witness ==
    /\ call = "BaseComparisons"
    /\ bc.status = "ok"
    /\ fingerprints.mode = "array"
    /\ fingerprints.n = MaxN
    /\ fingerprints.rows[0] # fingerprints.rows[1]
    /\ bc.total_sim >= 1
    /\ bc.total_dis >= 1

\* the counters x and y agree, the weighted ones as fractions over wscale
SameCounters(x, y) ==
    /\ \A f \in {"a", "d", "total_sim", "total_dis", "p"} : x[f] = y[f]
    /\ \A f \in {"w_a", "w_d", "total_w_sim", "total_w_dis", "w_p"} :
          x[f] * y.wscale = y[f] * x.wscale

\* the settings C17 speaks of: threshold unset, 'dissimilar' or an integer in
\* 0..n-1, and fraction or identity weights
SufficientStatisticSettings ==
    /\ \/ c_threshold = PyNone
       \/ c_threshold = PyStr("dissimilar")
       \/ c_threshold.kind = "int" /\ c_threshold.num \in 0..(fingerprints.n - 1)
    /\ w_factor \in {Str_fraction, Str_ones, WNone}

\* calculate_counters on the column sums of the fingerprints of the call
CountersOfAggregate ==
    calculate_counters(<<SumRows(fingerprints.rows, fingerprints.n) \o <<fingerprints.n>>>>,
                       c_threshold, w_factor)

\* C17: for n >= 2 equal-length fingerprints and these settings,
\* calculate_counters on [column sums, n] and BaseComparisons on the matrix
\* both return, with the same ten counters.
C17_SufficientStatistic ==
    (call = "BaseComparisons" /\ bc.status # "pending" /\ fingerprints.mode = "array"
        /\ fingerprints.n >= 2 /\ ~UnequalLengths /\ SufficientStatisticSettings) =>
            /\ bc.status = "ok"
            /\ CountersOfAggregate.status = "ok"
            /\ SameCounters(CountersOfAggregate, bc)

\* the nf fingerprints whose 2^nf columns enumerate all bit patterns: column
\* j of row i is bit i of j - 1
AllPatterns(nf) ==
    FpArray(nf, [i \in 0..(nf - 1) |->
                    [j \in 1..Pow(2, nf) |-> ((j - 1) \div Pow(2, i)) % 2]])

\* the number of k-element subsets of an nf-element set
Choose(nf, k) == Cardinality({S \in SUBSET (1..nf) : Cardinality(S) = k})

\* C18: an object constructed from the integer n has matches[k] = C(n, k) for
\* k = 0..n, and its counters are those of the object that array mode
\* constructs from the n fingerprints enumerating all 2^n bit patterns; p = 2^n.
C18_TheoreticalMode ==
    (call = "BaseComparisons" /\ bc.status = "ok" /\ fingerprints.mode = "int") =>
        /\ \A k \in 0..fingerprints.n : bc.matches[k + 1] = Choose(fingerprints.n, k)
        /\ BaseComparisons(AllPatterns(fingerprints.n), c_threshold, w_factor).status = "ok"
        /\ SameCounters(BaseComparisons(AllPatterns(fingerprints.n), c_threshold, w_factor), bc)
        /\ bc.p = Pow(2, fingerprints.n)

\* the columns of the aggregate whose sum is in sums
ColumnsWithSum(agg, sums) == {j \in 1..Len(agg) : agg[j] \in sums}

\* the call was for n >= 2 fingerprints of one length with c_threshold = n - 1
ExtremeThreshold ==
    /\ call = "BaseComparisons" => fingerprints.mode = "array" /\ ~UnequalLengths
    /\ CallN >= 2
    /\ c_threshold = PyInt(CallN - 1)

\* C19: with c_threshold = n - 1 (n >= 2) the call returns under fraction or
\* identity weights, and whenever it returns, a is the number of columns of
\* sum n, d the number of columns of sum 0, and total_dis the number of
\* columns with 0 < s < n.
C19_ExtremeThreshold ==
    (CallResult.status # "pending" /\ ExtremeThreshold) =>
        /\ w_factor \in {Str_fraction, Str_ones, WNone} => CallResult.status = "ok"
        /\ CallResult.status = "ok" =>
              /\ CallResult.a = Cardinality(ColumnsWithSum(CallAggregate, {CallN}))
              /\ CallResult.d = Cardinality(ColumnsWithSum(CallAggregate, {0}))
              /\ CallResult.total_dis
                    = Cardinality(ColumnsWithSum(CallAggregate, 1..(CallN - 1)))

\* C19 witness: calculate_counters returned for n = MaxN and threshold n - 1
\* on an all-zeros column and a column that is neither all zeros nor all ones
C19_Witness ==
    /\ call = "calculate_counters"
    /\ counters.status = "ok"
    /\ ExtremeThreshold
    /\ CallN = MaxN
    /\ ColumnsWithSum(CallAggregate, {0}) # {}
    /\ ColumnsWithSum(CallAggregate, 1..(CallN - 1)) # {}
    /\ counters.d = 1
    /\ counters.total_dis = 1

\* the finished call was made on the scenario collection, or on its
\* aggregate, with c_threshold unset and w_factor "fraction"
ScenarioCall ==
    /\ CallResult.status # "pending"
    /\ \/ call = "calculate_counters" /\ data_sets = ScenarioAggregate
       \/ call = "BaseComparisons" /\ fingerprints = ScenarioCollection
    /\ c_threshold = PyNone
    /\ w_factor = Str_fraction

\* C20: for the collection [1,1,0], [1,0,0], [1,1,1], [0,0,0] (column sums
\* [3,2,1], n = 4) with c_threshold unset and w_factor "fraction", the call
\* returns with effective threshold 0 and a = 1, d = 1, total_dis = 1,
\* total_sim = 2, p = 3.
C20_Scenario ==
    ScenarioCall =>
        /\ CallAggregate = <<3, 2, 1>>
        /\ CallN = 4
        /\ CallResult.status = "ok"
        /\ CallResult.c_num = 0
        /\ CallResult.a = 1
        /\ CallResult.d = 1
        /\ CallResult.total_dis = 1
        /\ CallResult.total_sim = 2
        /\ CallResult.p = 3

\* C20 witness: calculate_counters returned for the scenario
C20_Witness == ScenarioCall /\ call = "calculate_counters" /\ counters.status = "ok"

\* w is 'power_k' for an integer k <= 0
NonPositivePower(w) ==
    /\ Contains(w, Str_power)
    /\ ParseInt(SplitLast(w)).ok
    /\ ParseInt(SplitLast(w)).val <= 0

\* C23: calculate_counters called with w_factor 'power_k', k <= 0, raises a
\* validation error (ValueError or TypeError) and returns no counters.
C23_NonPositivePowerRejected ==
    (call = "calculate_counters" /\ counters.status # "pending"
        /\ NonPositivePower(w_factor)) =>
            /\ counters.status = "raised"
            /\ counters.exc \in {"ValueError", "TypeError"}

\* the weight C24 gives a column with d = |2s - n| under w_factor w: similar
\* columns when sim, dissimilar ones otherwise
ClaimedWeight(w, nf, d, sim) ==
    IF w = Str_fraction
    THEN IF sim THEN Rat(d, nf) ELSE Rat(nf - (d - (nf % 2)), nf)
    ELSE IF Contains(w, Str_power) /\ ParseInt(SplitLast(w)).ok
    THEN IF sim THEN Rat(1, Pow(ParseInt(SplitLast(w)).val, nf - d))
         ELSE Rat(1, Pow(ParseInt(SplitLast(w)).val, d - (nf % 2)))
    ELSE Rat(1, 1)

\* the sum of the claimed weights of the columns cols of agg, from column j on
RECURSIVE ClaimedWeightSum(_, _, _, _, _, _)
ClaimedWeightSum(agg, cols, j, nf, w, sim) ==
    IF j > Len(agg) THEN Rat(0, 1)
    ELSE IF j \in cols
    THEN RatAdd(ClaimedWeight(w, nf, Abs(2 * agg[j] - nf), sim),
                ClaimedWeightSum(agg, cols, j + 1, nf, w, sim))
    ELSE ClaimedWeightSum(agg, cols, j + 1, nf, w, sim)

\* C24: in a result of calculate_counters or of BaseComparisons (array mode)
\* for n >= 2 and an effective threshold in [0, n), w_a, w_d and total_w_dis
\* are the sums, over the 1-similar, 0-similar and dissimilar columns, of d/n
\* resp. 1 - (d - n mod 2)/n under 'fraction', of k^-(n - d) resp.
\* k^-(d - n mod 2) under 'power_k', and of 1 under any other w_factor.
C24_WeightedCounters ==
    (CountedColumns /\ CallN >= 2 /\ ValidThreshold(CallResult)) =>
        /\ RatEq(Rat(CallResult.w_a, CallResult.wscale),
                 ClaimedWeightSum(CallAggregate, OneSimilar(CallAggregate, CallN, CallResult),
                                  1, CallN, w_factor, TRUE))
        /\ RatEq(Rat(CallResult.w_d, CallResult.wscale),
                 ClaimedWeightSum(CallAggregate, ZeroSimilar(CallAggregate, CallN, CallResult),
                                  1, CallN, w_factor, TRUE))
        /\ RatEq(Rat(CallResult.total_w_dis, CallResult.wscale),
                 ClaimedWeightSum(CallAggregate, Dissimilar(CallAggregate, CallN, CallResult),
                                  1, CallN, w_factor, FALSE))

\* each element s of the row replaced by top - s
ComplementRow(row, top) == [j \in 1..Len(row) |-> top - row[j]]

\* the collection with every bit of every fingerprint flipped
ComplementFingerprints(fp) ==
    FpArray(fp.n, [i \in 0..(fp.n - 1) |-> ComplementRow(fp.rows[i], 1)])

\* the result of the call made on the complement: on the aggregate with each
\* column sum s replaced by n - s, or on the flipped fingerprints
ComplementResult ==
    IF call = "calculate_counters"
    THEN calculate_counters(<<ComplementRow(CallAggregate, CallN) \o <<CallN>>>>,
                            c_threshold, w_factor)
    ELSE BaseComparisons(ComplementFingerprints(fingerprints), c_threshold, w_factor)

\* y has the counters of x with a and d, and w_a and w_d, exchanged
SwappedCounters(x, y) ==
    /\ x.a = y.d /\ x.d = y.a
    /\ x.w_a * y.wscale = y.w_d * x.wscale
    /\ x.w_d * y.wscale = y.w_a * x.wscale
    /\ \A f \in {"total_sim", "total_dis", "p"} : x[f] = y[f]
    /\ \A f \in {"total_w_sim", "total_w_dis", "w_p"} : x[f] * y.wscale = y[f] * x.wscale

\* C28: complement symmetry.  A call that returns counters for an aggregate
\* (or for fingerprints of one length) returns, for the complement and the
\* same threshold and weights, the counters with a and d and w_a and w_d
\* exchanged and the other six unchanged; in integer mode a = d and w_a = w_d.
C28_ComplementSymmetry ==
    /\ (CountedColumns /\ ~UnequalLengths) =>
          /\ ComplementResult.status = "ok"
          /\ SwappedCounters(CallResult, ComplementResult)
    /\ (call = "BaseComparisons" /\ bc.status = "ok" /\ fingerprints.mode = "int") =>
          (bc.a = bc.d /\ bc.w_a = bc.w_d)

-----------------------------------------------------------------------------
(* Properties of one selection run *)

\* the run has a selection: the seed was found
Seeded == pc \in {"while", "store", "stored"} \/ (pc = "raised" /\ selected_n # <<>>)

\* the while loop was ended by an exception
LoopAborted == pc = "raised" /\ exc.at \in {"get_new_index_n", "update"}

NoDuplicates(s) == \A i, j \in 1..Len(s) : i # j => s[i] # s[j]

\* C6: in every state of a selection run selected_n has no duplicate, holds
\* only indices of the pool and starts with the seed, and when the loop has
\* ended it has exactly k elements.
C6_SelectedWellFormed ==
    Seeded =>
        /\ NoDuplicates(selected_n)
        /\ \A i \in 1..Len(selected_n) : selected_n[i] \in 0..(fp_total - 1)
        /\ selected_n[1] = seed
        /\ pc \in {"store", "stored"} => Len(selected_n) = TargetK

\* C7: for a pool of at least k fingerprints every iteration adds exactly one
\* index (and n is the length), and the loop ends, when the selection has k
\* elements, after k - 1 iterations: it is not ended earlier.
C7_GrowthAndTermination ==
    (fp_total >= TargetK /\ pc # "seed") =>
        /\ pc \in {"while", "store"} =>
              (Len(selected_n) = iters + 1 /\ n = Len(selected_n))
        /\ pc = "store" => (Len(selected_n) = TargetK /\ iters = TargetK - 1)
        /\ ~LoopAborted

\* element-wise sum of the loaded fingerprints of the indices s[1..k]
RECURSIVE SumLoaded(_, _)
SumLoaded(s, k) ==
    IF k = 1 THEN loaded[s[1]] ELSE VecAdd(SumLoaded(s, k - 1), loaded[s[k]])

\* the value of the trial set of candidate i: the running aggregate plus the
\* fingerprint of i, for |selected| + 1 fingerprints
TrialOf(i) ==
    gen_sim_dict(<<VecAdd(selected_condensed, loaded[i]) \o <<Len(selected_n) + 1>>>>,
                 c_threshold, "nw", n_ary).value

\* the candidates whose trial value is the minimum over all candidates
MinimalCandidates ==
    LET cand == {select_from_n[k] : k \in 1..Len(select_from_n)}
    IN  {i \in cand : \A k \in cand : ~RatLt(TrialOf(k), TrialOf(i))}

\* C8: an iteration with candidates that returns an index returns a candidate
\* of minimal trial value; the tie list is exactly the set of candidates of
\* minimal trial value, and a tie list of one member returns that member.
C8_MinimalCandidateChosen ==
    [][(pc = "while" /\ select_from_n # <<>> /\ iters' = iters + 1) =>
          /\ {indices'[k] : k \in 1..Len(indices')} = MinimalCandidates
          /\ NoDuplicates(indices')
          /\ new_index_n' \in MinimalCandidates
          /\ Len(indices') = 1 => new_index_n' = indices'[1]]_vars

\* C8 witness: an iteration chose among more than two candidates, of which
\* exactly two had the minimal trial value, and appended the index returned
C8_Witness ==
    /\ pc = "while"
    /\ iters >= 1
    /\ Len(indices) = 2
    /\ fp_total - Len(selected_n) + 1 > Len(indices)
    /\ new_index_n = selected_n[Len(selected_n)]

\* C9: at the start of every iteration and when the loop has ended, the
\* running aggregate is the sum of the loaded fingerprints of the indices in
\* selected_n; at first it is the seed's fingerprint.
C9_RunningAggregate ==
    pc \in {"while", "store"} =>
        selected_condensed = SumLoaded(selected_n, Len(selected_n))

\* C10: during the run and when it has ended every row of total_data is the
\* row that was loaded.
C10_CollectionUnchanged == total_data = loaded

\* the pairwise value (n = 2, unweighted, default threshold) of the loaded
\* fingerprints i and j
PairOf(i, j) ==
    gen_sim_dict(<<VecAdd(loaded[j], loaded[i]) \o <<2>>>>, PyNone, "nw", n_ary)

\* the sum of PairOf(i, j) over the members j = sel[1..k] of the selection
RECURSIVE PairSum(_, _, _)
PairSum(i, sel, k) ==
    IF k = 0 THEN Rat(0, 1) ELSE RatAdd(PairSum(i, sel, k - 1), PairOf(i, sel[k]).value)

\* the average of the pairwise values of candidate i over the selection
PairAverage(i, sel) ==
    Rat(PairSum(i, sel, Len(sel)).num, PairSum(i, sel, Len(sel)).den * Len(sel))

\* every pairwise value of the tied candidates in ties is defined
PairsDefined(ties, sel) ==
    \A a \in 1..Len(ties), k \in 1..Len(sel) : PairOf(ties[a], sel[k]).status = "ok"

\* the first member of ties, in order, whose average is minimal
FirstMinimalAverage(ties, sel) ==
    LET best == {a \in 1..Len(ties) :
                    \A b \in 1..Len(ties) :
                        ~RatLt(PairAverage(ties[b], sel), PairAverage(ties[a], sel))}
    IN  ties[CHOOSE a \in best : \A b \in best : a <= b]

\* C11: an iteration that breaks a tie returns the tied candidate whose average
\* pairwise value with the selected members, computed from the loaded
\* fingerprints, is minimal, and of several such candidates the first in the
\* candidate order.
C11_TieBreaker ==
    [][(pc = "while" /\ iters' = iters + 1 /\ Len(indices') >= 2
            /\ PairsDefined(indices', selected_n)) =>
          new_index_n' = FirstMinimalAverage(indices', selected_n)]_vars

\* every entry of the aggregate agg lies in 0..nn
WithinPopulation(agg, nn) == \A j \in 1..Len(agg) : 0 <= agg[j] /\ agg[j] <= nn

\* the aggregates a completed seeding handed to the counter engine (line 241),
\* each for |collection| - 1 fingerprints
LeaveOneOutAggregates ==
    {VecSub(SumRows(total_data, fp_total), total_data[i]) : i \in 0..(fp_total - 1)}

\* the aggregates a completed iteration handed over for its candidates
\* (line 300), each for n + 1 fingerprints
TrialAggregates ==
    {VecAdd(selected_condensed, total_data[select_from_n[k]]) :
        k \in 1..Len(select_from_n)}

\* the aggregates a completed tie-break over ties handed over (line 276), each
\* for 2 fingerprints
PairAggregates(ties) ==
    {VecAdd(total_data[selected_n[k]], total_data[ties[a]]) :
        k \in 1..Len(selected_n), a \in 1..Len(ties)}

\* C12: every aggregate handed to the counter engine during seeding, candidate
\* evaluation and tie-breaking has all its entries in 0..n for the population
\* size n handed over with it.
C12_AggregatesWithinPopulation ==
    [][/\ (pc = "seed" /\ pc' = "while") =>
              \A agg \in LeaveOneOutAggregates : WithinPopulation(agg, fp_total - 1)
       /\ (pc = "while" /\ iters' = iters + 1) =>
              /\ \A agg \in TrialAggregates : WithinPopulation(agg, n + 1)
              /\ Len(indices') >= 2 =>
                    \A agg \in PairAggregates(indices') : WithinPopulation(agg, 2)]_vars

\* C14: a run on a pool of fewer than k fingerprints is rejected before any
\* selection step: it ends with an exception, nothing is ever selected, and
\* no iteration of the loop is made.
C14_SmallPoolRejected ==
    fp_total < TargetK =>
        /\ pc \in {"seed", "raised"}
        /\ selected_n = <<>>
        /\ iters = 0

\* C15: no zero denominator of an index formula ends a selection run:
\* gen_sim_dict returns for every leave-one-out, trial and pairwise aggregate,
\* so the run never stops with a ZeroDivisionError.
C15_ZeroDenominatorTolerated == exc.type # "ZeroDivisionError"

-----------------------------------------------------------------------------
(* Properties of one call of a seed function *)

\* the value of the collection without row i: the chosen index on the total
\* column sum minus fingerprint i, for |collection| - 1 fingerprints
LeaveOneOutOf(i) ==
    gen_sim_dict(<<VecSub(SumRows(total_data, fp_total), total_data[i])
                     \o <<fp_total - 1>>>>, PyNone, "nw", n_ary).value

\* row s has the minimal leave-one-out value and no earlier row has it
LowestMinimalRow(s) ==
    LET v == LeaveOneOutOf(s)
    IN  \A k \in 0..(fp_total - 1) :
            IF k < s THEN RatLt(v, LeaveOneOutOf(k)) ELSE ~RatLt(LeaveOneOutOf(k), v)

\* row s has the maximal leave-one-out value and no earlier row has it
LowestMaximalRow(s) ==
    LET v == LeaveOneOutOf(s)
    IN  \A k \in 0..(fp_total - 1) :
            IF k < s THEN RatLt(LeaveOneOutOf(k), v) ELSE ~RatLt(v, LeaveOneOutOf(k))

\* C13: calculate_medoid returns the lowest index whose leave-one-out value is
\* the minimum over all rows, and calculate_outlier the lowest index whose
\* leave-one-out value is the maximum.
C13_SeedFunctions ==
    /\ (pc = "calculate_medoid" /\ exc = NoExc) =>
          (seed \in 0..(fp_total - 1) /\ LowestMinimalRow(seed))
    /\ (pc = "calculate_outlier" /\ exc = NoExc) =>
          (seed \in 0..(fp_total - 1) /\ LowestMaximalRow(seed))

\* C13 witness: calculate_medoid returned a row other than the first, and
\* a later row has the same minimal leave-one-out value
C13_Witness ==
    /\ pc = "calculate_medoid"
    /\ exc = NoExc
    /\ seed >= 1
    /\ \E i \in (seed + 1)..(fp_total - 1) :
          RatEq(LeaveOneOutOf(i), LeaveOneOutOf(seed))

-----------------------------------------------------------------------------
(* Properties of the functions that pick an index *)

\* the members of a Python list
Members(list) == {list[k] : k \in 1..Len(list)}

\* C26: whenever calculate_medoid or calculate_outlier returns, the index is a
\* row of the collection; whenever get_new_index_n returns for a non-empty
\* select_from_n, the index is a member of select_from_n, and a member of the
\* tie list when get_single_index chose it.
C26_PickedFromCandidates ==
    [][/\ (pc = "seed" /\ pc' # "seed" /\ exc'.at # "calculate_medoid") =>
             seed' \in 0..(fp_total - 1)
       /\ (pc = "start" /\ pc' # "start" /\ exc' = NoExc) =>
             seed' \in 0..(fp_total - 1)
       /\ (pc = "calculate_medoid" /\ pc' # pc /\ exc' = NoExc) =>
             seed_again' \in 0..(fp_total - 1)
       /\ (pc = "while" /\ Len(selected_n) < TargetK /\ select_from_n # <<>>
              /\ exc'.at # "get_new_index_n") =>
             /\ new_index_n' \in Members(select_from_n)
             /\ Len(indices') >= 2 => new_index_n' \in Members(indices')]_vars

\* C27: when the loop has ended with |selected_n| = k, the statement of line
\* 378 stores the selected sequence under [c_threshold][base_name] and raises
\* nothing, so that the script goes on to the next file and to the pickle.
C27_StoredWithoutError ==
    [][pc = "store" =>
          /\ pc' = "stored"
          /\ exc' = NoExc
          /\ c_threshold.s \in DOMAIN DiversityDict'
          /\ DiversityDict'[c_threshold.s].file = selected_n]_vars

-----------------------------------------------------------------------------
(* Properties of gen_sim_dict and of the index classes *)

\* the positions where both of two fingerprints have a 1, and where they differ
BothOne(x, y) == {j \in 1..Len(x) : x[j] = 1 /\ y[j] = 1}
Differ(x, y) == {j \in 1..Len(x) : x[j] # y[j]}

\* the classical Jaccard-Tanimoto value a / (a + b + c) of two fingerprints
ClassicalJT(x, y) ==
    Rat(Cardinality(BothOne(x, y)), Cardinality(BothOne(x, y)) + Cardinality(Differ(x, y)))

\* the call is for two fingerprints with a + b + c > 0, default threshold and
\* fraction weights
CanonicalPair ==
    /\ fingerprints.mode = "array"
    /\ fingerprints.n = 2
    /\ c_threshold = PyNone
    /\ w_factor = Str_fraction
    /\ BothOne(fingerprints.rows[0], fingerprints.rows[1])
          \cup Differ(fingerprints.rows[0], fingerprints.rows[1]) # {}

\* C21: for two fingerprints with a + b + c > 0, default threshold and
\* fraction weights, gen_sim_dict returns Indices['nw']['JT'] = a / (a + b + c)
\* and JaccardTanimoto is constructed with JT_1sim_dis = a / (a + b + c).
C21_ClassicalJaccardTanimoto ==
    /\ (call = "gen_sim_dict" /\ sim_dict.status # "pending" /\ CanonicalPair) =>
          /\ sim_dict.status = "ok"
          /\ RatEq(sim_dict.nw["JT"],
                   ClassicalJT(fingerprints.rows[0], fingerprints.rows[1]))
    /\ (call = "JaccardTanimoto" /\ index_obj.status # "pending" /\ CanonicalPair) =>
          /\ index_obj.status = "ok"
          /\ "JT_1sim_dis" \in DOMAIN index_obj.attrs
          /\ index_obj.attrs["JT_1sim_dis"].kind = "rat"
          /\ RatEq(index_obj.attrs["JT_1sim_dis"],
                   ClassicalJT(fingerprints.rows[0], fingerprints.rows[1]))

\* C25: gen_sim_dict called with c_threshold and w_factor returns, for every
\* index and both weight modes, the value the index formulas give for
\* calculate_counters(data_sets, c_threshold, w_factor), and raises when that
\* computation raises.
C25_SimDictUsesItsArguments ==
    (call = "gen_sim_dict" /\ sim_dict.status # "pending") =>
        \A name \in RationalIndices, weight \in {"nw", "w"} :
            /\ index_value(calculate_counters(data_sets, c_threshold, w_factor),
                           weight, name).status = sim_dict.status
            /\ sim_dict.status = "ok" =>
                  RatEq(sim_dict[weight][name],
                        index_value(calculate_counters(data_sets, c_threshold, w_factor),
                                    weight, name).value)

\* the counters o have columns of each class: no index formula divides by 0
NonDegenerate(o) == o.a >= 1 /\ o.d >= 1 /\ o.total_dis >= 1

\* the attribute names calc_indices registers for the class: abbr_variant
CatalogKeys(cls) == {Indices[cls].abbr \o "_" \o v : v \in Indices[cls].variants}

\* C29: a class of the catalog that is present, constructed on n >= 2
\* fingerprints of one length with a threshold in [0, n) and counters of every
\* class, raises nothing and has an attribute for every key of the catalog.
C29_CatalogConstructible ==
    (/\ call \in PresentClasses
     /\ index_obj.status # "pending"
     /\ fingerprints.n >= 2
     /\ BaseComparisons(fingerprints, c_threshold, w_factor).status = "ok"
     /\ ValidThreshold(BaseComparisons(fingerprints, c_threshold, w_factor))
     /\ NonDegenerate(BaseComparisons(fingerprints, c_threshold, w_factor))) =>
        /\ index_obj.status = "ok"
        /\ CatalogKeys(call) \subseteq DOMAIN index_obj.attrs

-----------------------------------------------------------------------------
(* Properties of _rank_array *)

\* the number of elements of the array smaller than, and equal to, element i
Smaller(arr, i) == Cardinality({j \in 1..Len(arr) : arr[j] < arr[i]})
Equal(arr, i) == Cardinality({j \in 1..Len(arr) : arr[j] = arr[i]})

\* the sum of the ranks r[1..k]
RECURSIVE RankSum(_, _)
RankSum(r, k) == IF k = 0 THEN Rat(0, 1) ELSE RatAdd(RankSum(r, k - 1), r[k])

\* equal values have equal ranks, a strictly larger value has a strictly
\* larger rank, and the ranks of an array of length L sum to L(L+1)/2
RanksOrdered(arr, r) ==
    /\ \A i, j \in 1..Len(arr) :
          /\ arr[i] = arr[j] => RatEq(r[i], r[j])
          /\ arr[i] < arr[j] => RatLt(r[i], r[j])
    /\ RatEq(RankSum(r, Len(arr)), Rat(Len(arr) * (Len(arr) + 1), 2))

====
